---- MODULE Spec2Model ----
(***************************************************************************)
(* Unity-Text-Manager: the re-injection engine (unity_injector.py) and the *)
(* scanner (unity_scanner.py).                                             *)
(*                                                                         *)
(* Specifications of this module                                           *)
(*   Spec        inject_translations on a game directory: the filter, the  *)
(*               grouping and, file by file, backup, working copy,         *)
(*               mutation, serialization, verification, replacement and    *)
(*               rollback, with every file operation able to fail          *)
(*   SpecFilter  the record filter _filter_valid_translations, applied to  *)
(*               bounded inventories (once, and again on what it left)     *)
(*   SpecNested  _set_nested_value on bounded structures and field paths   *)
(*   SpecAsset   _modify_text_asset_safe on one TextAsset of every shape   *)
(*   SpecMono    _modify_monobehaviour_safe on one MonoBehaviour, for      *)
(*               every kind of field value                                 *)
(*   SpecBinary  Spec on inventories holding BinaryExtraction records      *)
(*   SpecStop    Spec with the stop button of the injection tab            *)
(*   SpecWalk    one call of search_mono_data (unity_scanner.py), step by  *)
(*               step; SpecWalkLive adds that a running call goes on       *)
(*   SpecScan    one pass of scan_directory over a small file tree         *)
(*   SpecBatch   one call of a batch translation driver                    *)
(*               (intelligent_translator_adapter.py, openai_translator.py)  *)
(*               with the stop callback                                    *)
(*   SpecGui     the worker threads the GUI starts (unity_text_manager.py) *)
(*   SpecPath    the field paths search_mono_data emits, taken by          *)
(*               _get_nested_value and _set_nested_value                   *)
(*   SpecLps     find_length_prefixed_strings on a byte buffer, position   *)
(*               by position; SpecLpsLive adds that the scan goes on       *)
(*   SpecFields  Spec on inventories with several records per object       *)
(*   SpecRuns    inject_translations called again on the same injector,    *)
(*               then restore_backup                                       *)
(*                                                                         *)
(* Texts are sequences of characters; the characters of the injector's     *)
(* texts are "a" (a letter), " " (white space), NUL (U+0000) and CTL       *)
(* (U+0001, one of the control characters _clean_text_data removes).  The  *)
(* scanner builds ids, names and field paths character by character from   *)
(* letters, digits, '_', '.', '[' and ']'.                                 *)
(***************************************************************************)
EXTENDS Integers, Sequences, FiniteSets, TLC

VARIABLES
    texts,      \* translation_data['texts']: the inventory, a sequence of records
    texts0,     \* the inventory as it was handed over (history variable)
    valid,      \* result of the last filter call: indices into texts, in order
    report,     \* what the last filter call printed for each record
    prevValid,  \* the filter call before the last one: its result and the
                \* records it stood for
    runs,       \* number of filter calls made so far
    nest,       \* one call of _set_nested_value: its arguments and its outcome
    asset,      \* one TextAsset object, the record aimed at it and the outcome
                \* of _cache_original_data + _modify_text_asset_safe
    mono,       \* one MonoBehaviour object, the record aimed at it and the
                \* outcome of _modify_monobehaviour_safe
    walk,       \* one call of search_mono_data: its argument and what it did
    scan,       \* one pass of scan_directory: the file tree and the inventory
    stop,       \* the stop button of the injection tab and the flag behind it
    batch,      \* one call of a batch translation driver over an inventory
    gui,        \* the GUI driver: its worker threads and what they hold
    lps,        \* one call of find_length_prefixed_strings on a byte buffer
    restored,   \* the last call of restore_backup: whether made, and its result
    live,       \* the game directory: content of every game file
    backup,     \* self.backup_dir: content at the mirrored path of every file
    temp,       \* the working copy of the pipeline in progress (temp_file,
                \* *.unity_temp)
    safety,     \* the copy it makes before the replacement (backup_file,
                \* *.backup_temp)
    success_count,
    error_count,
    processed_files,
    pc,         \* where inject_translations stands
    files_to_process,  \* the groups of _group_by_source_file, in dict order
    file_index, \* the group the loop of inject_translations is at (from 1)
    env,        \* env.objects of the loaded working copy
    attempt,    \* attempts made by _replace_file_safely
    result,     \* value _inject_file_translations_safe is about to return
    live0,      \* history: the game directory before the run
    preCall,    \* history: the file's content when the container pipeline
                \* was entered for it (NoFile: not entered)
    verifiedTemp,  \* history: the working copy that passed verification
    written,    \* history: files whose live content was written in the run
    aborted,    \* history: files whose create_backup returned False
    failedVerify,  \* history: files whose rewritten content failed a
                   \* verification after it was written
    counted     \* history: what the run added to error_count and
                \* success_count for every file

filterVars == <<texts, texts0, valid, report, prevValid, runs>>

injVars == <<live, backup, temp, safety, success_count, error_count,
             processed_files, pc, files_to_process, file_index, env, attempt,
             result, live0, preCall, verifiedTemp, written, aborted,
             failedVerify, counted>>

\* the variables of the single calls, the scanner and the stop button
laterVars == <<batch, gui, lps, restored>>

callVars == <<nest, asset, mono, walk, scan, stop, laterVars>>

vars == <<filterVars, callVars, injVars>>

-----------------------------------------------------------------------------
(* Bounds *)

MaxTextLen == 2      \* longest translated_text of the varied record
MaxRecords == 2      \* longest inventory
MaxFilterRuns == 2   \* filter calls counted on one inventory
MaxDepth == 3        \* nesting depth of the structures handed to _set_nested_value
MaxPathSegs == 2     \* dotted segments of a field_path

-----------------------------------------------------------------------------
(* Characters and texts *)

NUL == "NUL"
CTL == "CTL"
SP  == " "
Chars == {"a", SP, NUL, CTL}

\* the characters listed in control_chars
ControlChars == {CTL}

\* str.isspace() on the characters of the model
IsSpace(c) == c = SP

RECURSIVE TextsOfLen(_)
TextsOfLen(n) ==
    IF n = 0 THEN {<<>>}
    ELSE {Append(t, c) : t \in TextsOfLen(n - 1), c \in Chars}

TextsUpTo(n) == UNION {TextsOfLen(k) : k \in 0..n}

\* text.replace(c, '') for every c of a set
RECURSIVE RemoveChars(_, _)
RemoveChars(text, cs) ==
    IF text = <<>> THEN <<>>
    ELSE IF Head(text) \in cs THEN RemoveChars(Tail(text), cs)
    ELSE <<Head(text)>> \o RemoveChars(Tail(text), cs)

\* str.lstrip() / str.rstrip() / str.strip()
RECURSIVE LStrip(_)
LStrip(text) ==
    IF text # <<>> /\ IsSpace(Head(text)) THEN LStrip(Tail(text)) ELSE text

RECURSIVE RStrip(_)
RStrip(text) ==
    IF text # <<>> /\ IsSpace(text[Len(text)])
    THEN RStrip(SubSeq(text, 1, Len(text) - 1))
    ELSE text

Strip(text) == LStrip(RStrip(text))

HasChar(text, c) == \E i \in DOMAIN text : text[i] = c

\* (variant: the NUL character is left in place)
CleanTextData_KeepNul(text) == RemoveChars(text, ControlChars)

\* _clean_text_data: an empty text is returned as it is; NUL and the listed
\* control characters are removed, white space is kept
CleanTextData(text) ==
    IF text = <<>> THEN text
    ELSE RemoveChars(RemoveChars(text, {NUL}), ControlChars)

\* _contains_dangerous_chars: dangerous_chars = ['\x00']
ContainsDangerousChars(text) == HasChar(text, NUL)

\* (variant: strip() applied before the cleaning)
CleanAndStrip_StripFirst(text) == CleanTextData(Strip(text))

\* the expression self._clean_text_data(...).strip() of the filter

CleanAndStrip(text) == Strip(CleanTextData(text))

-----------------------------------------------------------------------------
(* Records.  path_id is an integer when has_path_id holds; a record without *)
(* the key (or with None) has has_path_id = FALSE and path_id = 0.          *)
(* source_file is a file name, "" when the key is missing or empty.         *)

MkRecord(name, tr, orig, trans, src, hasId, id, atype, fpath) ==
    [asset_name |-> name, is_translated |-> tr, original_text |-> orig,
     translated_text |-> trans, source_file |-> src, has_path_id |-> hasId,
     path_id |-> id, asset_type |-> atype, field_path |-> fpath]

\* Python truthiness of text_entry.get('path_id'): None and 0 are falsy
PathIdTruthy(e) == e.has_path_id /\ e.path_id # 0

PathIdPresent(e) == e.has_path_id

\* (variant: the filter also clears is_translated in the entry it visits)
FilterEntry_ClearsFlag(e, exists) ==
    [entry |-> [e EXCEPT !.is_translated = FALSE,
                         !.original_text = CleanAndStrip(e.original_text),
                         !.translated_text = CleanAndStrip(e.translated_text)],
     verdict |-> "not_translated"]

\* one turn of the loop of _filter_valid_translations: the entry with its
\* texts cleaned and written back, and the verdict printed for it
FilterEntry(e, exists) ==
    LET original_text   == CleanAndStrip(e.original_text)
        translated_text == CleanAndStrip(e.translated_text)
        cleaned == [e EXCEPT !.original_text = original_text,
                             !.translated_text = translated_text]
        verdict ==
            IF ~e.is_translated THEN "not_translated"
            ELSE IF translated_text = <<>> THEN "empty"
            ELSE IF translated_text = original_text THEN "identical"
            ELSE IF ContainsDangerousChars(translated_text) THEN "dangerous"
            ELSE IF e.source_file = "" \/ e.source_file \notin exists THEN "no_source"
            ELSE IF ~PathIdTruthy(e) THEN "no_path_id"
            ELSE "valid"
    IN  [entry |-> cleaned, verdict |-> verdict]

RECURSIVE IndicesWhere(_, _, _)
IndicesWhere(rep, v, i) ==
    IF i > Len(rep) THEN <<>>
    ELSE IF rep[i] = v THEN <<i>> \o IndicesWhere(rep, v, i + 1)
    ELSE IndicesWhere(rep, v, i + 1)

\* _filter_valid_translations(texts): the inventory as the call leaves it,
\* the valid entries (as indices: the list holds the inventory's own
\* dictionaries) and the verdict printed per record
FilterValidTranslations(inv, exists) ==
    LET res == [i \in DOMAIN inv |-> FilterEntry(inv[i], exists)]
        rep == [i \in DOMAIN inv |-> res[i].verdict]
    IN  [texts  |-> [i \in DOMAIN inv |-> res[i].entry],
         report |-> rep,
         valid  |-> IndicesWhere(rep, "valid", 1)]

\* the entries a list of indices stands for
EntriesAt(inv, idx) == [k \in DOMAIN idx |-> inv[idx[k]]]

Range(s) == {s[k] : k \in DOMAIN s}

-----------------------------------------------------------------------------
(* Reflection structures (typetrees).  A node is a record                   *)
(*   t     "str", "bytes", "int", "float", "bool", "none", "dict", "list"   *)
(*   s     the characters of a str or bytes value                           *)
(*   n     the number of an int, float or bool value                        *)
(*   keys  the keys of a dict, in insertion order                           *)
(*   kids  the values of a dict (kids[i] under keys[i]) or the elements of  *)
(*         a list                                                           *)

StrV(s)   == [t |-> "str",   s |-> s,    n |-> 0, keys |-> <<>>, kids |-> <<>>]
BytesV(s) == [t |-> "bytes", s |-> s,    n |-> 0, keys |-> <<>>, kids |-> <<>>]
IntV(n)   == [t |-> "int",   s |-> <<>>, n |-> n, keys |-> <<>>, kids |-> <<>>]
NoneV     == [t |-> "none",  s |-> <<>>, n |-> 0, keys |-> <<>>, kids |-> <<>>]
BytearrayV(s) == [t |-> "bytearray", s |-> s, n |-> 0, keys |-> <<>>, kids |-> <<>>]
\* an attribute the object does not have (hasattr is false)
Absent    == [t |-> "absent", s |-> <<>>, n |-> 0, keys |-> <<>>, kids |-> <<>>]
DictV(keys, kids) == [t |-> "dict", s |-> <<>>, n |-> 0, keys |-> keys, kids |-> kids]
ListV(kids) == [t |-> "list", s |-> <<>>, n |-> 0, keys |-> <<>>, kids |-> kids]

IsContainer(node) == node.t \in {"dict", "list"}

\* key in current, current[key] for a dict
HasKey(node, key) == \E i \in DOMAIN node.keys : node.keys[i] = key
KeyIndex(node, key) == CHOOSE i \in DOMAIN node.keys : node.keys[i] = key
DictGet(node, key) == node.kids[KeyIndex(node, key)]

\* str.split(sep): the pieces between the separators, at least one piece
RECURSIVE SplitOn(_, _)
SplitOn(s, sep) ==
    IF ~HasChar(s, sep) THEN <<s>>
    ELSE LET i == CHOOSE k \in DOMAIN s :
                      s[k] = sep /\ \A j \in 1..(k - 1) : s[j] # sep
         IN  <<SubSeq(s, 1, i - 1)>> \o SplitOn(SubSeq(s, i + 1, Len(s)), sep)

Digits == {"0", "1", "2", "3"}
DigitVal(c) == CASE c = "0" -> 0 [] c = "1" -> 1 [] c = "2" -> 2 [] OTHER -> 3

RECURSIVE DigitsVal(_)
DigitsVal(s) ==
    IF s = <<>> THEN 0
    ELSE 10 * DigitsVal(SubSeq(s, 1, Len(s) - 1)) + DigitVal(s[Len(s)])

\* int(text): an optional sign and at least one digit; anything else raises
\* ValueError (ok = FALSE)
ParseInt(s) ==
    LET neg  == s # <<>> /\ Head(s) = "-"
        body == IF neg THEN Tail(s) ELSE s
    IN  IF body # <<>> /\ \A i \in DOMAIN body : body[i] \in Digits
        THEN [ok |-> TRUE, v |-> IF neg THEN 0 - DigitsVal(body) ELSE DigitsVal(body)]
        ELSE [ok |-> FALSE, v |-> 0]

\* '[' in key and ']' in key
IsIndexed(key) == HasChar(key, "[") /\ HasChar(key, "]")

\* key.split('[')[0]
FieldName(key) == SplitOn(key, "[")[1]

\* int(key.split('[')[1].split(']')[0])
IndexOf(key) == ParseInt(SplitOn(SplitOn(key, "[")[2], "]")[1])

\* list[index] exists: Python counts a negative index from the end
IndexInList(lst, index) ==
    /\ index < Len(lst.kids)
    /\ index >= 0 - Len(lst.kids)

ListPos(lst, index) == IF index >= 0 THEN index + 1 ELSE Len(lst.kids) + index + 1

\* one step along `key` from `current`, as the three navigation loops make
\* it: whether the key resolves.  A `current` that is no dict ends the call
\* (the membership test fails, or the subscript raises and the exception is
\* caught); so does an index that int() rejects or that lies outside the list.
KeyResolves(current, key) ==
    /\ current.t = "dict"
    /\ IF IsIndexed(key)
       THEN /\ IndexOf(key).ok
            /\ HasKey(current, FieldName(key))
            /\ DictGet(current, FieldName(key)).t = "list"
            /\ IndexInList(DictGet(current, FieldName(key)), IndexOf(key).v)
       ELSE HasKey(current, key)

\* current = current[field_name][index] / current = current[key]
StepTarget(current, key) ==
    IF IsIndexed(key)
    THEN LET lst == DictGet(current, FieldName(key))
         IN  lst.kids[ListPos(lst, IndexOf(key).v)]
    ELSE DictGet(current, key)

\* current[field_name][index] = value / current[final_key] = value (which,
\* on a dict without the key, adds the key)
StepAssign(current, key, value) ==
    IF IsIndexed(key)
    THEN LET k   == KeyIndex(current, FieldName(key))
             lst == current.kids[k]
             pos == ListPos(lst, IndexOf(key).v)
         IN  [current EXCEPT !.kids[k] = [lst EXCEPT !.kids[pos] = value]]
    ELSE IF HasKey(current, key)
    THEN [current EXCEPT !.kids[KeyIndex(current, key)] = value]
    ELSE [current EXCEPT !.keys = Append(current.keys, key),
                         !.kids = Append(current.kids, value)]

\* the tests of the loop over keys[:-1]
NavResolves(current, key) == KeyResolves(current, key)

\* (variant: the final key is assigned without the test `final_key not in
\* current`)
FinalResolves_NoKeyTest(current, key) ==
    /\ current.t = "dict"
    /\ IsIndexed(key) => KeyResolves(current, key)

\* the tests on the final key
FinalResolves(current, key) == KeyResolves(current, key)

\* _set_nested_value after path.split('.'): the structure is changed in
\* place by the one assignment at the end, or not at all
RECURSIVE SetAlong(_, _, _)
SetAlong(current, keys, value) ==
    IF Len(keys) = 1
    THEN IF FinalResolves(current, keys[1])
         THEN [ok |-> TRUE, node |-> StepAssign(current, keys[1], value)]
         ELSE [ok |-> FALSE, node |-> current]
    ELSE IF ~NavResolves(current, keys[1])
    THEN [ok |-> FALSE, node |-> current]
    ELSE LET r == SetAlong(StepTarget(current, keys[1]), Tail(keys), value)
         IN  [ok |-> r.ok,
              node |-> IF r.ok THEN StepAssign(current, keys[1], r.node) ELSE current]

SetNestedValue(data, path, value) == SetAlong(data, SplitOn(path, "."), value)

\* _get_nested_value: the value at the path, or None
RECURSIVE GetAlong(_, _)
GetAlong(current, keys) ==
    IF keys = <<>> THEN current
    ELSE IF ~KeyResolves(current, keys[1]) THEN NoneV
    ELSE GetAlong(StepTarget(current, keys[1]), Tail(keys))

GetNestedValue(data, path) == GetAlong(data, SplitOn(path, "."))

-----------------------------------------------------------------------------
(* Structures and paths of the nested-value specification *)

KA == <<"a">>
KB == <<"b">>
SibLeaf == StrV(<<"s">>)
Leaves == {StrV(<<"h", "i">>), IntV(7)}

\* nodes nested at most d deep; every dict and list has a sibling beside
\* the nested node
RECURSIVE NodesUpTo(_)
NodesUpTo(d) ==
    IF d = 0 THEN Leaves
    ELSE LET P == NodesUpTo(d - 1)
         IN  P \cup {DictV(<<KA, KB>>, <<x, SibLeaf>>) : x \in P}
               \cup {ListV(<<x, SibLeaf>>) : x \in P}
               \cup {ListV(<<SibLeaf, x>>) : x \in P}

\* read_typetree() returns a dict
Roots == {x \in NodesUpTo(MaxDepth) : x.t = "dict"}

\* dotted segments: keys present and missing, indices inside and outside the
\* lists, counted from the end, and not a number
PathSegs ==
    { <<"a">>, <<"b">>, <<"c">>,
      <<"a", "[", "0", "]">>, <<"a", "[", "1", "]">>, <<"a", "[", "2", "]">>,
      <<"a", "[", "-", "1", "]">>, <<"a", "[", "x", "]">> }

RECURSIVE PathsOfSegs(_)
PathsOfSegs(n) ==
    IF n = 1 THEN PathSegs
    ELSE {p \o <<".">> \o seg : p \in PathsOfSegs(n - 1), seg \in PathSegs}

NestPaths == UNION {PathsOfSegs(n) : n \in 1..MaxPathSegs}

\* values _convert_to_type hands to _set_nested_value
NestValues == {StrV(<<"x">>), IntV(0)}

NestIdle == [tree |-> NoneV, path |-> <<>>, value |-> NoneV,
             done |-> FALSE, ok |-> FALSE, result |-> NoneV]

-----------------------------------------------------------------------------
(* Objects of a container.  An object is a record                           *)
(*   path_id, type   obj.path_id, obj.type.name                             *)
(*   name            the name _get_asset_name finds                         *)
(*   attrs           the content attributes text, m_Script and bytes of the *)
(*                   data obj.read() returns: a value, or Absent            *)
(*   tree            what read_typetree() returns (MonoBehaviour)           *)
(*   readable        obj.read() returns (FALSE: it raises)                  *)
(*   savable         data.save() returns (FALSE: it raises)                 *)

MkObject(id, type, name, text, script, bytes, tree, readable, savable) ==
    [path_id |-> id, type |-> type, name |-> name,
     attrs |-> [text |-> text, m_Script |-> script, bytes |-> bytes],
     tree |-> tree, readable |-> readable, savable |-> savable]

\* str.encode('utf-8'), character by character: one byte for ASCII, two for
\* an accented letter
Utf8Char(c) ==
    CASE c = "e'" -> <<"C3", "A9">>
      [] c = "a"  -> <<"61">>
      [] c = SP   -> <<"20">>
      [] OTHER    -> <<"3F">>

RECURSIVE Utf8(_)
Utf8(text) == IF text = <<>> THEN <<>> ELSE Utf8Char(Head(text)) \o Utf8(Tail(text))

ContentAttrs == <<"text", "m_Script", "bytes">>

\* the entry self.original_data_cache[path_id] written by
\* _cache_original_data for one object: the type of every content attribute
\* the data has ("absent" for the others); cached = FALSE when obj.read()
\* raised and nothing was stored
CacheEntryOf(obj) ==
    IF obj.readable
    THEN [cached |-> TRUE,
          types |-> [a \in {"text", "m_Script", "bytes"} |-> obj.attrs[a].t]]
    ELSE [cached |-> FALSE,
          types |-> [a \in {"text", "m_Script", "bytes"} |-> "absent"]]

\* original_info.get('attributes', {}).get(attr, {}).get('type', str)
OriginalType(info, attr) ==
    IF info.cached /\ info.types[attr] # "absent" THEN info.types[attr] ELSE "str"

\* (variant: the translated text is always written as a native string)
WriteAs_AlwaysStr(original_type, new_content) ==
    [ok |-> TRUE, value |-> StrV(new_content)]

\* the value written to m_Script or bytes for an original of the given type:
\* the UTF-8 bytes for bytes/bytearray, the string for str, nothing else
WriteAs(original_type, new_content) ==
    IF original_type \in {"bytes", "bytearray"}
    THEN [ok |-> TRUE, value |-> BytesV(Utf8(new_content))]
    ELSE IF original_type = "str"
    THEN [ok |-> TRUE, value |-> StrV(new_content)]
    ELSE [ok |-> FALSE, value |-> NoneV]

\* the value written to text: a string when the original was one
WriteAsText(original_type, new_content) ==
    IF original_type = "str"
    THEN [ok |-> TRUE, value |-> StrV(new_content)]
    ELSE [ok |-> FALSE, value |-> NoneV]

\* the first content attribute the data has, in the order the code tests
\* them; "none" when it has none
FirstAttr(obj) ==
    IF obj.attrs.text.t # "absent" THEN "text"
    ELSE IF obj.attrs.m_Script.t # "absent" THEN "m_Script"
    ELSE IF obj.attrs.bytes.t # "absent" THEN "bytes"
    ELSE "none"

\* (variant: the asset name of the record is not compared with the object's)
ModifyTextAssetSafe_AnyName(obj, entry, info) ==
    IF ~obj.readable \/ ~obj.savable \/ obj.attrs.text.t # "str"
    THEN [ok |-> FALSE, obj |-> obj]
    ELSE [ok |-> TRUE,
          obj |-> [obj EXCEPT !.attrs.text = StrV(entry.translated_text)]]

\* _modify_text_asset_safe(obj, text_entry): whether it returns True, and
\* the object as it is afterwards
ModifyTextAssetSafe(obj, entry, info) ==
    LET attr == FirstAttr(obj)
        w == IF attr = "text"
             THEN WriteAsText(OriginalType(info, "text"), entry.translated_text)
             ELSE WriteAs(OriginalType(info, attr), entry.translated_text)
    IN  IF ~obj.readable THEN [ok |-> FALSE, obj |-> obj]
        ELSE IF obj.name # entry.asset_name THEN [ok |-> FALSE, obj |-> obj]
        ELSE IF attr = "none" THEN [ok |-> FALSE, obj |-> obj]
        ELSE IF ~w.ok THEN [ok |-> FALSE, obj |-> obj]
        ELSE IF ~obj.savable THEN [ok |-> FALSE, obj |-> obj]
        ELSE [ok |-> TRUE, obj |-> [obj EXCEPT !.attrs[attr] = w.value]]

-----------------------------------------------------------------------------
(* MonoBehaviour objects *)

FloatV(n) == [t |-> "float", s |-> <<>>, n |-> n, keys |-> <<>>, kids |-> <<>>]
BoolV(b)  == [t |-> "bool", s |-> <<>>, n |-> IF b THEN 1 ELSE 0,
              keys |-> <<>>, kids |-> <<>>]

\* str(value).lower() in ('true', '1', 'yes', 'on'), on the characters of
\* the model
TruthyTexts == {<<"1">>}

\* float(text), on the characters of the model (no '.', no exponent, no
\* 'inf' or 'nan' among them): the texts int() takes
ParseFloat(s) == ParseInt(s)

\* _convert_to_type(value, target_type)
ConvertToType(value, target_type) ==
    IF target_type = "str" THEN StrV(value)
    ELSE IF target_type \in {"bytes", "bytearray"} THEN BytesV(Utf8(value))
    ELSE IF target_type = "int"
    THEN IntV(IF ParseInt(value).ok THEN ParseInt(value).v ELSE 0)
    ELSE IF target_type = "float"
    THEN FloatV(IF ParseFloat(value).ok THEN ParseFloat(value).v ELSE 0)
    ELSE IF target_type = "bool" THEN BoolV(value \in TruthyTexts)
    ELSE StrV(value)

\* _read_mono_data(data): the typetree, None (NoneV) when there is none
ReadMonoData(obj) == obj.tree

\* `not mono_data`: None or an empty dict
MonoDataFalsy(d) == d.t # "dict" \/ d.keys = <<>>

\* _modify_monobehaviour_safe(obj, text_entry): whether it returns True, and
\* the object as it is afterwards
ModifyMonoBehaviourSafe(obj, entry) ==
    LET mono_data == ReadMonoData(obj)
        original_value == GetNestedValue(mono_data, entry.field_path)
        original_type == IF original_value = NoneV THEN "str" ELSE original_value.t
        converted_value == ConvertToType(entry.translated_text, original_type)
        r == SetNestedValue(mono_data, entry.field_path, converted_value)
    IN  IF ~obj.readable THEN [ok |-> FALSE, obj |-> obj]
        ELSE IF entry.field_path = <<>> THEN [ok |-> FALSE, obj |-> obj]
        ELSE IF MonoDataFalsy(mono_data) THEN [ok |-> FALSE, obj |-> obj]
        ELSE IF ~r.ok THEN [ok |-> FALSE, obj |-> obj]
        ELSE IF ~obj.savable THEN [ok |-> FALSE, obj |-> obj]
        ELSE [ok |-> TRUE, obj |-> [obj EXCEPT !.tree = r.node]]

-----------------------------------------------------------------------------
(* Files.  The content of a file is a record                                *)
(*   kind  "none"   no such file                                            *)
(*         "unity"  a container UnityPy loads, with the objects objs        *)
(*         "text"   a plain-text file holding text                          *)
(*         "trunc"  what a copy or write that broke off midway left behind  *)

NoFile == [kind |-> "none", objs |-> <<>>, text |-> <<>>]
UnityFile(objs) == [kind |-> "unity", objs |-> objs, text |-> <<>>]
PlainFile(text) == [kind |-> "text", objs |-> <<>>, text |-> text]
Truncated == [kind |-> "trunc", objs |-> <<>>, text |-> <<>>]

\* how shutil.copy2(src, dst) can end: dst is a full copy; the call raises
\* before dst is opened for writing (PermissionError on a locked file); the
\* call raises while writing (dst was truncated by open(dst, 'wb'))
CopyOutcomes == {"ok", "denied", "partial"}

CopyResult(src, dst, outcome) ==
    IF outcome = "ok" THEN src
    ELSE IF outcome = "denied" THEN dst
    ELSE Truncated

\* how shutil.move(temp, target) can end for an existing target.  The temp
\* file is made by tempfile.NamedTemporaryFile in the system's temp
\* directory: os.rename replaces the target in one step when it can;
\* otherwise (another file system, or Windows, where rename onto an existing
\* file fails) the temp file is copied over the target and then removed.
\*   "moved"   the target holds the temp file's content, the temp file is gone
\*   "denied"  the call raises, nothing was written
\*   "partial" the copy raises midway: the target is left truncated
\*   "copied"  the copy ends, removing the temp file raises
MoveOutcomes == {"moved", "denied", "partial", "copied"}

\* suffixes routed to _inject_unity_file_with_rollback
IsContainerName(f) == f \in {"level0.assets", "data.bundle"}

\* _verify_backup_integrity(original, backup): equal size and, below 50 MB,
\* equal MD5
VerifyBackupIntegrity(original, copy) ==
    /\ original.kind # "none" /\ copy.kind # "none"
    /\ original = copy

ProbeLimit == 10   \* `if i > 10: break` in _verify_unity_file_loadable

\* _verify_unity_file_loadable(file_path): UnityPy loads the file and one of
\* its first objects can be read (a file that is no container loads without
\* objects)
VerifyUnityFileLoadable(content) ==
    /\ content.kind = "unity"
    /\ \E i \in DOMAIN content.objs : i - 1 <= ProbeLimit /\ content.objs[i].readable

\* _verify_text_asset_coherence(data)
VerifyTextAssetCoherence(obj) ==
    IF obj.attrs.text.t \notin {"absent", "none"}
    THEN obj.attrs.text.t = "str"
    ELSE IF obj.attrs.m_Script.t \notin {"absent", "none"}
    THEN obj.attrs.m_Script.t \in {"str", "bytes", "bytearray"}
    ELSE IF obj.attrs.bytes.t \notin {"absent", "none"}
    THEN obj.attrs.bytes.t \in {"str", "bytes", "bytearray"}
    ELSE FALSE

\* _verify_monobehaviour_coherence(data)
VerifyMonoBehaviourCoherence(obj) == ~MonoDataFalsy(ReadMonoData(obj))

\* [e.get('path_id') for e in text_entries], None left out
EntryPathIds(entries) == {e.path_id : e \in {x \in Range(entries) : x.has_path_id}}

\* _verify_unity_file_complete_integrity(file_path, text_entries) on a file
\* with the given content: every readable object aimed at by an entry is
\* coherent, and at least len(text_entries) objects are readable
VerifyCompleteIntegrity(content, entries) ==
    /\ content.kind = "unity"
    /\ \A i \in DOMAIN content.objs :
          LET obj == content.objs[i]
          IN  (obj.readable /\ obj.path_id \in EntryPathIds(entries)) =>
                 /\ obj.type = "TextAsset" => VerifyTextAssetCoherence(obj)
                 /\ obj.type = "MonoBehaviour" => VerifyMonoBehaviourCoherence(obj)
    /\ Cardinality({i \in DOMAIN content.objs : content.objs[i].readable})
          >= Len(entries)

\* _group_by_source_file: the groups in the order their file first appears,
\* each with its entries (indices into the inventory) in order
RECURSIVE GroupBySourceFile(_, _)
GroupBySourceFile(inv, idx) ==
    IF idx = <<>> THEN <<>>
    ELSE LET f    == inv[Head(idx)].source_file
             same == SelectSeq(idx, LAMBDA i : inv[i].source_file = f)
             rest == SelectSeq(idx, LAMBDA i : inv[i].source_file # f)
         IN  <<[file |-> f, entries |-> same]>> \o GroupBySourceFile(inv, rest)

\* entries_by_path_id[obj.path_id]: of the entries with that path_id, the
\* last one (a later entry replaces an earlier one in the dict)
HasEntryFor(entries, id) ==
    \E k \in DOMAIN entries : PathIdPresent(entries[k]) /\ entries[k].path_id = id

EntryFor(entries, id) ==
    entries[CHOOSE k \in DOMAIN entries :
                /\ PathIdPresent(entries[k]) /\ entries[k].path_id = id
                /\ \A j \in DOMAIN entries :
                      (PathIdPresent(entries[j]) /\ entries[j].path_id = id) => j <= k]

\* self.original_data_cache.get(path_id, {}) after _cache_original_data,
\* which stores the objects whose path_id is that of an entry with a truthy
\* path_id
CachedInfo(obj, entries) ==
    IF \E k \in DOMAIN entries : PathIdTruthy(entries[k]) /\ entries[k].path_id = obj.path_id
    THEN CacheEntryOf(obj)
    ELSE [cached |-> FALSE,
          types |-> [a \in {"text", "m_Script", "bytes"} |-> "absent"]]

\* the body of the loop over env.objects for one object
ModifyObject(obj, entries) ==
    IF ~HasEntryFor(entries, obj.path_id) THEN [ok |-> FALSE, obj |-> obj]
    ELSE IF obj.type = "TextAsset"
    THEN ModifyTextAssetSafe(obj, EntryFor(entries, obj.path_id), CachedInfo(obj, entries))
    ELSE IF obj.type = "MonoBehaviour"
    THEN ModifyMonoBehaviourSafe(obj, EntryFor(entries, obj.path_id))
    ELSE [ok |-> FALSE, obj |-> obj]

\* the loop over env.objects: the objects afterwards and modifications_count
MutateObjects(objs, entries) ==
    [objs  |-> [i \in DOMAIN objs |-> ModifyObject(objs[i], entries).obj],
     count |-> Cardinality({i \in DOMAIN objs : ModifyObject(objs[i], entries).ok})]

\* what reloading the bytes of env.file.save() yields: the objects of the
\* environment; a damaged serialization leaves the modified objects
\* unreadable
Reloaded(before, after, damaged) ==
    [i \in DOMAIN after |->
        IF damaged /\ after[i] # before[i]
        THEN [after[i] EXCEPT !.readable = FALSE]
        ELSE after[i]]

\* the TextAssets and translated texts of the asset specification
AttrValues ==
    {Absent, NoneV, StrV(<<"a">>), BytesV(<<"61">>), BytearrayV(<<"61">>)}

AssetTexts == {<<"a", "a">>, <<"e'", "a">>}

AssetIdle == [obj |-> MkObject(0, "TextAsset", "", Absent, Absent, Absent,
                               NoneV, FALSE, FALSE),
              entry |-> MkRecord("", FALSE, <<>>, <<>>, "", FALSE, 0, "", <<>>),
              done |-> FALSE, ok |-> FALSE,
              result |-> MkObject(0, "TextAsset", "", Absent, Absent, Absent,
                                  NoneV, FALSE, FALSE)]

\* the MonoBehaviours, field paths and translated texts of the MonoBehaviour
\* specification: a typetree {a: leaf, b: [leaf, 's']} for every kind of leaf
MonoLeaves ==
    {StrV(<<"a">>), BytesV(<<"61">>), IntV(7), FloatV(7), BoolV(FALSE), NoneV,
     DictV(<<KA>>, <<StrV(<<"a">>)>>), ListV(<<StrV(<<"a">>)>>)}

MonoTree(leaf) == DictV(<<KA, KB>>, <<leaf, ListV(<<leaf, SibLeaf>>)>>)

MonoPaths ==
    {<<"a">>, <<"b", "[", "0", "]">>, <<"b", "[", "3", "]">>, <<"c">>}

MonoTexts == {<<"a", "a">>, <<"1", "2">>, <<"-", "1">>, <<"1">>}

\* the variables of the later specifications where a specification makes no
\* use of them
MonoIdle == [done |-> FALSE]
WalkIdle == [done |-> FALSE]
ScanIdle == [done |-> FALSE]
StopIdle == [requested |-> FALSE]

BatchIdle == [done |-> FALSE]
GuiIdle == [busy |-> FALSE]
LpsIdle == [done |-> FALSE]
RestoredIdle == [called |-> FALSE]

LaterIdle ==
    batch = BatchIdle /\ gui = GuiIdle /\ lps = LpsIdle /\ restored = RestoredIdle

OthersIdle ==
    /\ mono = MonoIdle /\ walk = WalkIdle /\ scan = ScanIdle /\ stop = StopIdle
    /\ LaterIdle

-----------------------------------------------------------------------------
(* Inventories of the filter specification *)

FileA == "level0.assets"
FileB == "data.bundle"
FileMissing == "gone.assets"

\* files Path(source_file).exists() finds
ExistingFiles == {FileA, FileB}

OrigTexts == {<<"a">>, <<"a", SP>>}

\* is_translated, source_file, has_path_id, path_id of the varied record:
\* all in order, or one of them not
FlagCombos ==
    { <<TRUE, FileA, TRUE, 1>>, <<FALSE, FileA, TRUE, 1>>, <<TRUE, "", TRUE, 1>>,
      <<TRUE, FileMissing, TRUE, 1>>, <<TRUE, FileA, FALSE, 0>>,
      <<TRUE, FileA, TRUE, 0>> }

\* the record whose texts and flags are varied
VariedRecords ==
    {MkRecord("dlg", f[1], o, t, f[2], f[3], f[4], "TextAsset", <<>>) :
        o \in OrigTexts, t \in TextsUpTo(MaxTextLen), f \in FlagCombos}

\* the other records of an inventory
GoodText == <<"a", "a">>
FixedRecords ==
    { MkRecord("r_ok",   TRUE,  <<"a">>, GoodText, FileA, TRUE, 2, "TextAsset", <<>>),
      MkRecord("r_nul",  TRUE,  <<"a">>, <<"a", NUL, "a">>, FileB, TRUE, 3, "TextAsset", <<>>),
      MkRecord("r_sp",   TRUE,  <<"a">>, <<SP, "a", "a">>, FileA, TRUE, 4, "TextAsset", <<>>),
      MkRecord("r_ctl",  TRUE,  <<"a">>, <<CTL, SP, "a">>, FileA, TRUE, 6, "TextAsset", <<>>),
      MkRecord("r_not",  FALSE, <<"a">>, GoodText, FileA, TRUE, 5, "TextAsset", <<>>) }

RECURSIVE SeqsOfLen(_, _)
SeqsOfLen(S, n) ==
    IF n = 0 THEN {<<>>}
    ELSE {Append(s, x) : s \in SeqsOfLen(S, n - 1), x \in S}

SeqsUpTo(S, n) == UNION {SeqsOfLen(S, k) : k \in 0..n}

-----------------------------------------------------------------------------
(* The game directory of the injection specification *)

FileT == "notes.txt"

GameFiles == {FileA, FileB, FileT}

\* level0.assets: a TextAsset whose m_Script holds bytes, a MonoBehaviour
\* with a typetree, and an object of another type; data.bundle: a TextAsset
\* with a text string; notes.txt: plain text
InitialFiles ==
    [f \in GameFiles |->
        IF f = FileA
        THEN UnityFile(<<MkObject(1, "TextAsset", "dlg", Absent, BytesV(<<"61">>),
                                  Absent, NoneV, TRUE, TRUE),
                         MkObject(2, "MonoBehaviour", "ui", Absent, Absent, Absent,
                                  DictV(<<KA, KB>>, <<StrV(<<"a">>), IntV(7)>>),
                                  TRUE, TRUE),
                         MkObject(3, "Texture2D", "tex", Absent, Absent, Absent,
                                  NoneV, TRUE, TRUE)>>)
        ELSE IF f = FileB
        THEN UnityFile(<<MkObject(1, "TextAsset", "menu", StrV(<<"a">>), Absent,
                                  Absent, NoneV, TRUE, TRUE)>>)
        ELSE PlainFile(<<"a">>)]

NoFiles == [f \in GameFiles |-> NoFile]

\* the records of the inventories handed to inject_translations: a
\* TextAsset record, a MonoBehaviour field record, a record of the other
\* container with a text the filter cleans, one for the same object under an
\* asset name the object no longer has, a text-file record as the scanner writes it (no
\* path_id), and one carrying a path_id
InjectRecords ==
    { MkRecord("dlg",  TRUE, <<"a">>, GoodText, FileA, TRUE, 1, "TextAsset", <<>>),
      MkRecord("ui",   TRUE, <<"a">>, GoodText, FileA, TRUE, 2, "MonoBehaviour", <<"a">>),
      MkRecord("menu", TRUE, <<"a", SP>>, <<NUL, "e'", SP>>, FileB, TRUE, 1, "TextAsset", <<>>),
      MkRecord("gone", TRUE, <<"a">>, GoodText, FileB, TRUE, 1, "TextAsset", <<>>),
      MkRecord("notes.txt", TRUE, <<"a">>, <<"a", "a", CTL>>, FileT, FALSE, 0, "TextFile", <<>>),
      MkRecord("notes.txt", TRUE, <<"a">>, GoodText, FileT, TRUE, 1, "TextFile", <<>>) }

NoCount == [err |-> 0, succ |-> 0]

\* the injection variables where the specification makes no use of them
InjIdle ==
    /\ live = NoFiles /\ backup = NoFiles /\ temp = NoFile /\ safety = NoFile
    /\ success_count = 0 /\ error_count = 0 /\ processed_files = {}
    /\ pc = "idle" /\ files_to_process = <<>> /\ file_index = 0
    /\ env = <<>> /\ attempt = 0 /\ result = FALSE
    /\ live0 = NoFiles /\ preCall = NoFile /\ verifiedTemp = NoFile
    /\ written = {} /\ aborted = {} /\ failedVerify = {}
    /\ counted = [f \in GameFiles |-> NoCount]

-----------------------------------------------------------------------------
(* SpecFilter: _filter_valid_translations on an inventory, and again on the *)
(* inventory as the call left it (run_diagnostic_mode followed by           *)
(* inject_translations filters the same list twice)                         *)

InitFilter ==
    /\ \E r \in VariedRecords, t \in SeqsUpTo(FixedRecords, MaxRecords - 1) :
            texts = <<r>> \o t
    /\ texts0 = texts
    /\ valid = <<>>
    /\ report = <<>>
    /\ prevValid = [idx |-> <<>>, recs |-> <<>>]
    /\ runs = 0
    /\ nest = NestIdle
    /\ asset = AssetIdle
    /\ OthersIdle
    /\ InjIdle

ApplyFilter ==
    /\ runs < MaxFilterRuns
    /\ LET r == FilterValidTranslations(texts, ExistingFiles)
       IN  /\ texts' = r.texts
           /\ valid' = r.valid
           /\ report' = r.report
    /\ prevValid' = [idx |-> valid, recs |-> EntriesAt(texts, valid)]
    /\ runs' = runs + 1
    /\ UNCHANGED <<texts0, callVars, injVars>>

NextFilter == ApplyFilter

SpecFilter == InitFilter /\ [][NextFilter]_vars

-----------------------------------------------------------------------------
(* SpecNested: one call of _set_nested_value(data, path, value) *)

InitNested ==
    /\ \E tree \in Roots, path \in NestPaths, value \in NestValues :
            nest = [tree |-> tree, path |-> path, value |-> value,
                    done |-> FALSE, ok |-> FALSE, result |-> tree]
    /\ texts = <<>> /\ texts0 = <<>> /\ valid = <<>> /\ report = <<>>
    /\ prevValid = [idx |-> <<>>, recs |-> <<>>]
    /\ runs = 0
    /\ asset = AssetIdle
    /\ OthersIdle
    /\ InjIdle

CallSetNestedValue ==
    /\ ~nest.done
    /\ LET r == SetNestedValue(nest.tree, nest.path, nest.value)
       IN  nest' = [nest EXCEPT !.done = TRUE, !.ok = r.ok, !.result = r.node]
    /\ UNCHANGED <<filterVars, asset, mono, walk, scan, stop, laterVars, injVars>>

NextNested == CallSetNestedValue

SpecNested == InitNested /\ [][NextNested]_vars

-----------------------------------------------------------------------------
(* SpecAsset: _cache_original_data and _modify_text_asset_safe on one       *)
(* TextAsset, for every combination of content attributes and types         *)

InitAsset ==
    /\ \E text \in AttrValues, script \in AttrValues, bytes \in AttrValues,
          readable \in BOOLEAN, savable \in BOOLEAN,
          name \in {"dlg", "other"}, t \in AssetTexts :
            LET obj == MkObject(1, "TextAsset", "dlg", text, script, bytes,
                                NoneV, readable, savable)
            IN  asset = [obj |-> obj,
                         entry |-> MkRecord(name, TRUE, <<"a">>, t, FileA, TRUE, 1,
                                            "TextAsset", <<>>),
                         done |-> FALSE, ok |-> FALSE, result |-> obj]
    /\ texts = <<>> /\ texts0 = <<>> /\ valid = <<>> /\ report = <<>>
    /\ prevValid = [idx |-> <<>>, recs |-> <<>>]
    /\ runs = 0
    /\ nest = NestIdle
    /\ OthersIdle
    /\ InjIdle

CallModifyTextAsset ==
    /\ ~asset.done
    /\ LET r == ModifyTextAssetSafe(asset.obj, asset.entry, CacheEntryOf(asset.obj))
       IN  asset' = [asset EXCEPT !.done = TRUE, !.ok = r.ok, !.result = r.obj]
    /\ UNCHANGED <<filterVars, nest, mono, walk, scan, stop, laterVars, injVars>>

NextAsset == CallModifyTextAsset

SpecAsset == InitAsset /\ [][NextAsset]_vars

-----------------------------------------------------------------------------
(* SpecMono: _modify_monobehaviour_safe on one MonoBehaviour, for every     *)
(* kind of original field value, translated text and field path             *)

InitMono ==
    /\ \E leaf \in MonoLeaves, path \in MonoPaths, t \in MonoTexts,
          readable \in BOOLEAN, savable \in BOOLEAN :
            LET obj == MkObject(2, "MonoBehaviour", "ui", Absent, Absent, Absent,
                                MonoTree(leaf), readable, savable)
            IN  mono = [obj |-> obj,
                        entry |-> MkRecord("ui", TRUE, <<"a">>, t, FileA, TRUE, 2,
                                           "MonoBehaviour", path),
                        done |-> FALSE, ok |-> FALSE, result |-> obj]
    /\ texts = <<>> /\ texts0 = <<>> /\ valid = <<>> /\ report = <<>>
    /\ prevValid = [idx |-> <<>>, recs |-> <<>>]
    /\ runs = 0
    /\ nest = NestIdle /\ asset = AssetIdle
    /\ walk = WalkIdle /\ scan = ScanIdle /\ stop = StopIdle
    /\ LaterIdle
    /\ InjIdle

CallModifyMonoBehaviour ==
    /\ ~mono.done
    /\ LET r == ModifyMonoBehaviourSafe(mono.obj, mono.entry)
       IN  mono' = [mono EXCEPT !.done = TRUE, !.ok = r.ok, !.result = r.obj]
    /\ UNCHANGED <<filterVars, nest, asset, walk, scan, stop, laterVars, injVars>>

NextMono == CallModifyMonoBehaviour

SpecMono == InitMono /\ [][NextMono]_vars

-----------------------------------------------------------------------------
(* Spec: inject_translations(translation_data) on the game directory.  One  *)
(* action per step of the run; a file operation that can fail takes every   *)
(* outcome it can have.                                                     *)

Init ==
    /\ texts \in SeqsUpTo(InjectRecords, MaxRecords)
    /\ texts0 = texts
    /\ valid = <<>> /\ report = <<>>
    /\ prevValid = [idx |-> <<>>, recs |-> <<>>]
    /\ runs = 0
    /\ nest = NestIdle /\ asset = AssetIdle
    /\ OthersIdle
    /\ live = InitialFiles /\ live0 = InitialFiles
    /\ backup = NoFiles /\ temp = NoFile /\ safety = NoFile
    /\ success_count = 0 /\ error_count = 0 /\ processed_files = {}
    /\ pc = "start" /\ files_to_process = <<>> /\ file_index = 0
    /\ env = <<>> /\ attempt = 0 /\ result = FALSE
    /\ preCall = NoFile /\ verifiedTemp = NoFile
    /\ written = {} /\ aborted = {} /\ failedVerify = {}
    /\ counted = [f \in GameFiles |-> NoCount]

\* the group the loop is at
CurFile == files_to_process[file_index].file
CurEntries == EntriesAt(texts, files_to_process[file_index].entries)

max_attempts == 20

\* (variant: the result of create_backup is not looked at)
AfterBackup_Ignored(ok) == "dispatch"

\* `if not self.create_backup(file_path): return False`
AfterBackup(ok) == IF ok THEN "dispatch" ELSE "count"

\* (variant: the verdict on the working copy is not looked at)
AfterTempVerification_Ignored(ok) == "safety_copy"

\* `if not self._verify_unity_file_complete_integrity(temp_file, ...):
\* return False`
AfterTempVerification(ok) == IF ok THEN "safety_copy" ELSE "finally"

\* inject_translations up to its loop: the counters are reset, the inventory
\* is filtered (its texts cleaned in place) and grouped by source file
InjectTranslations ==
    /\ pc = "start"
    /\ LET r == FilterValidTranslations(texts,
                    {f \in GameFiles : live[f].kind # "none"})
       IN  /\ texts' = r.texts
           /\ valid' = r.valid
           /\ report' = r.report
           /\ files_to_process' = GroupBySourceFile(r.texts, r.valid)
           /\ pc' = IF r.valid = <<>> THEN "done" ELSE "file"
    /\ prevValid' = [idx |-> valid, recs |-> EntriesAt(texts, valid)]
    /\ runs' = runs + 1
    /\ success_count' = 0
    /\ error_count' = 0
    /\ processed_files' = {}
    /\ file_index' = 1
    /\ UNCHANGED <<texts0, callVars, live, backup, temp, safety, env,
                   attempt, result, live0, preCall, verifiedTemp, written,
                   aborted, failedVerify, counted>>

\* the head of the loop and the entry of _inject_file_translations_safe: the
\* run ends after the last group; a file already processed returns True; a
\* file os.access refuses returns False
BeginFile ==
    /\ pc = "file"
    /\ IF file_index > Len(files_to_process)
       THEN pc' = "done" /\ UNCHANGED result
       ELSE IF CurFile \in processed_files
       THEN pc' = "count" /\ result' = TRUE
       ELSE \E access \in BOOLEAN :
               IF access THEN pc' = "backup" /\ UNCHANGED result
               ELSE pc' = "count" /\ result' = FALSE
    /\ UNCHANGED <<texts, texts0, valid, report, prevValid, runs, callVars,
                    live, backup, temp, safety, success_count,
                   error_count, processed_files, files_to_process,
                   file_index, env, attempt, live0, preCall, verifiedTemp,
                   written, aborted, failedVerify, counted>>

\* create_backup(file_path): copy to the mirrored path, compare the copy,
\* test that the file loads
CreateBackup ==
    /\ pc = "backup"
    /\ \E outcome \in CopyOutcomes :
         LET copy == CopyResult(live[CurFile], backup[CurFile], outcome)
             ok == /\ live[CurFile].kind # "none"
                   /\ outcome = "ok"
                   /\ VerifyBackupIntegrity(live[CurFile], copy)
                   /\ VerifyUnityFileLoadable(live[CurFile])
         IN  /\ backup' = [backup EXCEPT ![CurFile] = copy]
             /\ aborted' = IF ok THEN aborted ELSE aborted \cup {CurFile}
             /\ pc' = AfterBackup(ok)
             /\ result' = FALSE
    /\ UNCHANGED <<texts, texts0, valid, report, prevValid, runs, callVars,
                    live, temp, safety, success_count, error_count,
                   processed_files, files_to_process, file_index, env,
                   attempt, live0, preCall, verifiedTemp, written,
                   failedVerify, counted>>

\* the dispatch on the suffix.  A container: _inject_unity_file_with_rollback
\* makes its temp file and copies the live file to it.  Any other file:
\* _inject_text_file writes the one translated text over the live file.
Dispatch ==
    /\ pc = "dispatch"
    /\ \E outcome \in CopyOutcomes :
         IF IsContainerName(CurFile)
         THEN /\ temp' = CopyResult(live[CurFile], Truncated, outcome)
              /\ preCall' = live[CurFile]
              /\ verifiedTemp' = NoFile
              /\ pc' = IF outcome = "ok" THEN "load" ELSE "finally"
              /\ result' = FALSE
              /\ UNCHANGED <<live, written>>
         ELSE /\ IF Len(CurEntries) = 1
                 THEN /\ live' = [live EXCEPT ![CurFile] =
                             CopyResult(PlainFile(CurEntries[1].translated_text),
                                        live[CurFile], outcome)]
                      /\ written' = IF outcome = "denied" THEN written
                                    ELSE written \cup {CurFile}
                      /\ result' = (outcome = "ok")
                 ELSE /\ result' = FALSE
                      /\ UNCHANGED <<live, written>>
              /\ pc' = "count"
              /\ UNCHANGED <<temp, preCall, verifiedTemp>>
    /\ UNCHANGED <<texts, texts0, valid, report, prevValid, runs, callVars,
                    backup, safety, success_count, error_count,
                   processed_files, files_to_process, file_index, env,
                   attempt, live0, aborted, failedVerify, counted>>

\* UnityPy.load(str(temp_file)); a failure returns False
Load ==
    /\ pc = "load"
    /\ \E loads \in BOOLEAN :
         IF loads /\ temp.kind = "unity"
         THEN env' = temp.objs /\ pc' = "mutate"
         ELSE env' = <<>> /\ pc' = "finally"
    /\ UNCHANGED <<texts, texts0, valid, report, prevValid, runs, callVars,
                    live, backup, temp, safety, success_count,
                   error_count, processed_files, files_to_process,
                   file_index, attempt, result, live0, preCall, verifiedTemp,
                   written, aborted, failedVerify, counted>>

\* _cache_original_data and the loop over env.objects; without a
\* modification the pipeline returns True
Mutate ==
    /\ pc = "mutate"
    /\ LET r == MutateObjects(env, CurEntries)
       IN  /\ env' = r.objs
           /\ IF r.count > 0
              THEN pc' = "serialize" /\ UNCHANGED result
              ELSE pc' = "finally" /\ result' = TRUE
    /\ UNCHANGED <<texts, texts0, valid, report, prevValid, runs, callVars,
                    live, backup, temp, safety, success_count,
                   error_count, processed_files, files_to_process,
                   file_index, attempt, live0, preCall, verifiedTemp,
                   written, aborted, failedVerify, counted>>

\* open(temp_file, "wb") and f.write(env.file.save()): the serialization is
\* written; or save() raises on the opened (emptied) file; or what is
\* written does not read back for the modified objects
Serialize ==
    /\ pc = "serialize"
    /\ \E outcome \in {"ok", "raise", "damaged"} :
         /\ temp' = IF outcome = "ok" THEN UnityFile(env)
                    ELSE IF outcome = "raise" THEN Truncated
                    ELSE UnityFile(Reloaded(temp.objs, env, TRUE))
         /\ pc' = IF outcome = "raise" THEN "finally" ELSE "verify_temp"
    /\ env' = <<>>
    /\ UNCHANGED <<texts, texts0, valid, report, prevValid, runs, callVars,
                    live, backup, safety, success_count, error_count,
                   processed_files, files_to_process, file_index, attempt,
                   result, live0, preCall, verifiedTemp, written, aborted,
                   failedVerify, counted>>

\* the verification of the rewritten working copy
VerifyTemp ==
    /\ pc = "verify_temp"
    /\ LET ok == VerifyCompleteIntegrity(temp, CurEntries)
       IN  /\ verifiedTemp' = IF ok THEN temp ELSE verifiedTemp
           /\ failedVerify' = IF ok THEN failedVerify
                              ELSE failedVerify \cup {CurFile}
           /\ pc' = AfterTempVerification(ok)
    /\ UNCHANGED <<texts, texts0, valid, report, prevValid, runs, callVars,
                    live, backup, temp, safety, success_count,
                   error_count, processed_files, files_to_process,
                   file_index, env, attempt, result, live0, preCall, written,
                   aborted, counted>>

\* shutil.copy2(file_path, backup_file); a failure returns False
SafetyCopy ==
    /\ pc = "safety_copy"
    /\ \E outcome \in CopyOutcomes :
         /\ safety' = CopyResult(live[CurFile], safety, outcome)
         /\ pc' = IF outcome = "ok" THEN "replace" ELSE "finally"
    /\ attempt' = 0
    /\ UNCHANGED <<texts, texts0, valid, report, prevValid, runs, callVars,
                    live, backup, temp, success_count, error_count,
                   processed_files, files_to_process, file_index, env,
                   result, live0, preCall, verifiedTemp, written, aborted,
                   failedVerify, counted>>

\* one turn of the loop of _replace_file_safely: shutil.move(source, target)
Replace ==
    /\ pc = "replace"
    /\ attempt < max_attempts
    /\ \E outcome \in MoveOutcomes :
         /\ live' = [live EXCEPT ![CurFile] =
                        IF outcome \in {"moved", "copied"} THEN temp
                        ELSE IF outcome = "partial" THEN Truncated
                        ELSE live[CurFile]]
         /\ temp' = IF outcome = "moved" THEN NoFile ELSE temp
         /\ written' = IF outcome = "denied" THEN written
                       ELSE written \cup {CurFile}
         /\ pc' = IF outcome = "moved" THEN "verify_final"
                  ELSE IF attempt + 1 = max_attempts THEN "restore"
                  ELSE "replace"
    /\ attempt' = attempt + 1
    /\ UNCHANGED <<texts, texts0, valid, report, prevValid, runs, callVars,
                    backup, safety, success_count, error_count,
                   processed_files, files_to_process, file_index, env,
                   result, live0, preCall, verifiedTemp, aborted,
                   failedVerify, counted>>

\* the verification of the replaced live file (it can also fail because the
\* file does not load at that moment); on success the safety copy is
\* removed, and a failure of that removal returns False
VerifyFinal ==
    /\ pc = "verify_final"
    /\ \E loads \in BOOLEAN, unlinked \in BOOLEAN :
         LET ok == loads /\ VerifyCompleteIntegrity(live[CurFile], CurEntries)
         IN  IF ok
             THEN /\ safety' = IF unlinked THEN NoFile ELSE safety
                  /\ result' = unlinked
                  /\ pc' = "finally"
                  /\ UNCHANGED failedVerify
             ELSE /\ failedVerify' = failedVerify \cup {CurFile}
                  /\ pc' = "restore"
                  /\ UNCHANGED <<safety, result>>
    /\ UNCHANGED <<texts, texts0, valid, report, prevValid, runs, callVars,
                    live, backup, temp, success_count, error_count,
                   processed_files, files_to_process, file_index, env,
                   attempt, live0, preCall, verifiedTemp, written, aborted,
                   counted>>

\* shutil.copy2(backup_file, file_path) and backup_file.unlink(); the
\* pipeline returns False whether they succeed or raise
Restore ==
    /\ pc = "restore"
    /\ \E outcome \in CopyOutcomes, unlinked \in BOOLEAN :
         IF safety.kind # "none"
         THEN /\ live' = [live EXCEPT ![CurFile] =
                             CopyResult(safety, live[CurFile], outcome)]
              /\ written' = IF outcome = "denied" THEN written
                            ELSE written \cup {CurFile}
              /\ safety' = IF outcome = "ok" /\ unlinked THEN NoFile ELSE safety
         ELSE UNCHANGED <<live, written, safety>>
    /\ result' = FALSE
    /\ pc' = "finally"
    /\ UNCHANGED <<texts, texts0, valid, report, prevValid, runs, callVars,
                    backup, temp, success_count, error_count,
                   processed_files, files_to_process, file_index, env,
                   attempt, live0, preCall, verifiedTemp, aborted,
                   failedVerify, counted>>

\* the finally block: the working copy and the safety copy are removed,
\* errors swallowed
Finally ==
    /\ pc = "finally"
    /\ \E temp_gone \in BOOLEAN, safety_gone \in BOOLEAN :
         /\ temp' = IF temp_gone THEN NoFile ELSE temp
         /\ safety' = IF safety_gone THEN NoFile ELSE safety
    /\ env' = <<>>
    /\ pc' = "count"
    /\ UNCHANGED <<texts, texts0, valid, report, prevValid, runs, callVars,
                    live, backup, success_count, error_count,
                   processed_files, files_to_process, file_index, attempt,
                   result, live0, preCall, verifiedTemp, written, aborted,
                   failedVerify, counted>>

\* the return of _inject_file_translations_safe and the counting in
\* inject_translations; the pipeline's temp_file and backup_file are its
\* locals, the next file has its own
CountFile ==
    /\ pc = "count"
    /\ processed_files' = IF result THEN processed_files \cup {CurFile}
                          ELSE processed_files
    /\ success_count' = IF result THEN success_count + Len(CurEntries)
                        ELSE success_count
    /\ error_count' = IF result THEN error_count
                      ELSE error_count + Len(CurEntries)
    /\ counted' = [counted EXCEPT ![CurFile] =
                      IF result THEN [err |-> 0, succ |-> Len(CurEntries)]
                      ELSE [err |-> Len(CurEntries), succ |-> 0]]
    /\ file_index' = file_index + 1
    /\ temp' = NoFile /\ safety' = NoFile
    /\ preCall' = NoFile /\ verifiedTemp' = NoFile
    /\ attempt' = 0 /\ result' = FALSE
    /\ pc' = "file"
    /\ UNCHANGED <<texts, texts0, valid, report, prevValid, runs, callVars,
                    live, backup, files_to_process, env, live0, written,
                   aborted, failedVerify>>

Next ==
    \/ InjectTranslations
    \/ BeginFile
    \/ CreateBackup
    \/ Dispatch
    \/ Load
    \/ Mutate
    \/ Serialize
    \/ VerifyTemp
    \/ SafetyCopy
    \/ Replace
    \/ VerifyFinal
    \/ Restore
    \/ Finally
    \/ CountFile

Spec == Init /\ [][Next]_vars

-----------------------------------------------------------------------------
(* SpecBinary: inject_translations on inventories that hold records of the  *)
(* Binary String Sweep: one as analyze_binary_file writes it (neither       *)
(* path_id nor field_path), the same carrying the path_id of an object,     *)
(* under the object's name and under its own, one carrying path_id and      *)
(* field_path of a MonoBehaviour field, and beside them a TextAsset record  *)

BinaryInjectRecords ==
    { MkRecord("BinaryString_0", TRUE, <<"a">>, GoodText, FileB, FALSE, 0,
               "BinaryExtraction", <<>>),
      MkRecord("BinaryString_0", TRUE, <<"a">>, GoodText, FileB, TRUE, 1,
               "BinaryExtraction", <<>>),
      MkRecord("menu", TRUE, <<"a">>, GoodText, FileB, TRUE, 1,
               "BinaryExtraction", <<>>),
      MkRecord("ui", TRUE, <<"a">>, GoodText, FileA, TRUE, 2,
               "BinaryExtraction", <<"a">>),
      MkRecord("dlg", TRUE, <<"a">>, GoodText, FileA, TRUE, 1, "TextAsset", <<>>) }

InitBinary ==
    /\ texts \in SeqsUpTo(BinaryInjectRecords, MaxRecords)
    /\ texts0 = texts
    /\ valid = <<>> /\ report = <<>>
    /\ prevValid = [idx |-> <<>>, recs |-> <<>>]
    /\ runs = 0
    /\ nest = NestIdle /\ asset = AssetIdle
    /\ OthersIdle
    /\ live = InitialFiles /\ live0 = InitialFiles
    /\ backup = NoFiles /\ temp = NoFile /\ safety = NoFile
    /\ success_count = 0 /\ error_count = 0 /\ processed_files = {}
    /\ pc = "start" /\ files_to_process = <<>> /\ file_index = 0
    /\ env = <<>> /\ attempt = 0 /\ result = FALSE
    /\ preCall = NoFile /\ verifiedTemp = NoFile
    /\ written = {} /\ aborted = {} /\ failedVerify = {}
    /\ counted = [f \in GameFiles |-> NoCount]

SpecBinary == InitBinary /\ [][Next]_vars

-----------------------------------------------------------------------------
(* SpecStop: inject_translations with the stop button of the injection tab  *)
(*                                                                          *)
(* The variable `stop`:                                                     *)
(*   has_flag   hasattr(self, 'injection_stop_flag'): no line of the        *)
(*              program assigns the attribute before the button does        *)
(*   flag       self.injection_stop_flag                                    *)
(*   requested  history: the button was pressed during the pass             *)
(*   last       history: the group in the pipeline at that moment (the one  *)
(*              before, when the loop stood between two groups)             *)

StopRecords ==
    { MkRecord("dlg",  TRUE, <<"a">>, GoodText, FileA, TRUE, 1, "TextAsset", <<>>),
      MkRecord("menu", TRUE, <<"a">>, GoodText, FileB, TRUE, 1, "TextAsset", <<>>) }

InitStop ==
    /\ texts \in SeqsUpTo(StopRecords, MaxRecords)
    /\ texts0 = texts
    /\ valid = <<>> /\ report = <<>>
    /\ prevValid = [idx |-> <<>>, recs |-> <<>>]
    /\ runs = 0
    /\ nest = NestIdle /\ asset = AssetIdle
    /\ mono = MonoIdle /\ walk = WalkIdle /\ scan = ScanIdle
    /\ LaterIdle
    /\ stop = [has_flag |-> FALSE, flag |-> FALSE, requested |-> FALSE, last |-> 0]
    /\ live = InitialFiles /\ live0 = InitialFiles
    /\ backup = NoFiles /\ temp = NoFile /\ safety = NoFile
    /\ success_count = 0 /\ error_count = 0 /\ processed_files = {}
    /\ pc = "start" /\ files_to_process = <<>> /\ file_index = 0
    /\ env = <<>> /\ attempt = 0 /\ result = FALSE
    /\ preCall = NoFile /\ verifiedTemp = NoFile
    /\ written = {} /\ aborted = {} /\ failedVerify = {}
    /\ counted = [f \in GameFiles |-> NoCount]

\* stop_current_injection, called by the button while the pass runs in its
\* thread: it sets the flag if the attribute exists.  The loop of
\* inject_translations (the actions of Spec) does not read it.
StopCurrentInjection ==
    /\ pc \notin {"start", "done"}
    /\ ~stop.requested
    /\ stop' = [stop EXCEPT
                  !.flag = IF stop.has_flag THEN TRUE ELSE @,
                  !.requested = TRUE,
                  !.last = IF pc = "file" THEN file_index - 1 ELSE file_index]
    /\ UNCHANGED <<filterVars, nest, asset, mono, walk, scan, laterVars, injVars>>

NextStop == Next \/ StopCurrentInjection

SpecStop == InitStop /\ [][NextStop]_vars

-----------------------------------------------------------------------------
(* The scanner (unity_scanner.py): search_mono_data                         *)
(*                                                                          *)
(* A structure handed to search_mono_data may share nodes or contain        *)
(* itself.  Such a structure is a heap: a sequence of dicts and lists whose *)
(* kids are scalar values or references RefV(i) to the i-th node of the     *)
(* heap.  A typetree without sharing needs no heap: its kids are the nested *)
(* nodes themselves.                                                        *)

RefV(i) == [t |-> "ref", s |-> <<>>, n |-> i, keys |-> <<>>, kids |-> <<>>]

Deref(heap, v) == IF v.t = "ref" THEN heap[v.n] ELSE v

\* if depth > 6: return
DepthLimit == 6
\* ... and depth < 4 (both recursions)
RecurseBelow == 4
\* data[:100]
ListCap == 100
\* len(value) > 3
MinFieldLen == 3

\* str(i) of a number that is not negative
DecDigits == <<"0", "1", "2", "3", "4", "5", "6", "7", "8", "9">>

RECURSIVE DecStr(_)
DecStr(n) ==
    IF n < 10 THEN <<DecDigits[n + 1]>>
    ELSE DecStr(n \div 10) \o <<DecDigits[(n % 10) + 1]>>

\* the characters of the texts and names the scanner meets in the model:
\* letters, the digits, '_' and the punctuation of a field path
Letters == {"a", "b", "c", "d", "e", "g", "h", "i", "l", "n", "s", "t", "u", "x"}

IsLetter(c) == c \in Letters

IsDigit(c) == \E k \in DOMAIN DecDigits : DecDigits[k] = c

\* the class [<>/_\-=+*#@$%^&(){}[\]\\|;:,.\d\s] of technical_patterns
IsTechnicalChar(c) == IsDigit(c) \/ IsSpace(c) \/ c \in {"_", ".", "[", "]", "-"}

CountLetters(text) == Cardinality({k \in DOMAIN text : IsLetter(text[k])})

\* needle in haystack
Contains(haystack, needle) ==
    \E k \in 0..(Len(haystack) - Len(needle)) :
        SubSeq(haystack, k + 1, k + Len(needle)) = needle

\* is_valid_text_candidate on the characters above: the patterns that need
\* other characters or words (versions, file suffixes, 'm_X', 'UnityEngine.',
\* 'System.', true/false/null) match no text of the model
IsValidTextCandidate(text) ==
    /\ Len(text) >= 4
    \* ^[0-9a-fA-F]{8,}$
    /\ ~(Len(text) >= 8 /\ \A k \in DOMAIN text :
                              IsDigit(text[k]) \/ text[k] \in {"a", "b", "c", "d", "e"})
    \* ^[A-Z_]{6,}$ with re.IGNORECASE
    /\ ~(Len(text) >= 6 /\ \A k \in DOMAIN text : IsLetter(text[k]) \/ text[k] = "_")
    \* ^\s*$ and ^[<>/_\-=+*#@$%^&(){}[\]\\|;:,.\d\s]+$
    /\ ~(\A k \in DOMAIN text : IsTechnicalChar(text[k]))
    \* letter_count < len(text) * 0.3
    /\ 10 * CountLetters(text) >= 3 * Len(text)

\* is_potential_game_text: of game_patterns, '[.!?]\s*$' and '^[A-Z].*[a-z]'
\* (with re.IGNORECASE) can match a text of the model; the word lists cannot
IsPotentialGameText(text) ==
    /\ IsValidTextCandidate(text)
    /\ \/ text[Len(text)] = "."
       \/ IsLetter(text[1]) /\ \E k \in 2..Len(text) : IsLetter(text[k])
       \/ Len(text) > 20

\* self.text_patterns: those a name of the model can contain
TextPatterns == {<<"t", "e", "x", "t">>, <<"l", "i", "n", "e">>}

\* contains_dialogue_pattern: of dialogue_patterns only '[.!?]\s*' can match
\* a text of the model
ContainsDialoguePattern(content) == HasChar(content, ".")

\* is_text_relevant(name, content), on lower-case names
IsTextRelevant(name, content) ==
    \/ \E p \in TextPatterns : Contains(name, p)
    \/ content # <<>> /\ ContainsDialoguePattern(content)

\* new_path.replace('.', '_').replace('[', '_').replace(']', '_')
CleanPath(path) ==
    [k \in DOMAIN path |-> IF path[k] \in {".", "[", "]"} THEN "_" ELSE path[k]]

\* a record of found_texts
TextInfo(id, src, name, atype, hasPid, pid, fpath, text, method) ==
    [id |-> id, source_file |-> src, asset_name |-> name, asset_type |-> atype,
     has_path_id |-> hasPid, path_id |-> pid, field_path |-> fpath,
     original_text |-> text, extraction_method |-> method]

\* one activation of search_mono_data: its data, path and depth, and the
\* position of its loop (the next key or element, from 1)
Frame(node, path, depth) == [node |-> node, path |-> path, depth |-> depth, i |-> 1]

\* the activation gets past 'if depth > 6: return' into one of the branches
Entered(f) ==
    /\ f.depth <= DepthLimit
    /\ \/ f.node.t = "dict"
       \/ f.node.t = "list" /\ f.depth < RecurseBelow

\* (variant: the whole list)
ListSlice_Whole(node) == Len(node.kids)

\* data[:100]
ListSlice(node) == IF Len(node.kids) > ListCap THEN ListCap ELSE Len(node.kids)

LoopLen(node) == IF node.t = "dict" THEN Len(node.kids) ELSE ListSlice(node)

\* a call of search_mono_data(data, name, source_file, path_id)
StartWalk(heap, data, name, src, pid) ==
    [heap |-> heap, name |-> name, source_file |-> src, path_id |-> pid,
     stack |-> <<Frame(Deref(heap, data), <<>>, 0)>>,
     found |-> <<>>, deepest |-> 0, widest |-> 0, calls |-> 1, done |-> FALSE]

\* new_path = f"{path}.{key}" if path else key
NewPath(path, key) == IF path # <<>> THEN path \o <<".">> \o key ELSE key

\* the record of the dict branch
FieldRecord(w, new_path, value) ==
    TextInfo(w.source_file.stem \o <<"_">> \o DecStr(w.path_id) \o <<"_">>
                 \o CleanPath(new_path),
             w.source_file, w.name \o <<".">> \o new_path, "MonoBehaviour",
             TRUE, w.path_id, new_path, value.s, "")

\* one step of the running call: the activation on top of the stack returns
\* (guard failed, or loop exhausted), or its loop handles the next key or
\* element, which may append a record and may call search_mono_data again
WalkStepOf(w) ==
    LET f    == w.stack[Len(w.stack)]
        rest == SubSeq(w.stack, 1, Len(w.stack) - 1)
    IN  IF ~Entered(f) \/ f.i > LoopLen(f.node)
        THEN [w EXCEPT !.stack = rest, !.done = (rest = <<>>)]
        ELSE LET kid  == Deref(w.heap, f.node.kids[f.i])
                 next == [f EXCEPT !.i = f.i + 1]
             IN  IF f.node.t = "dict"
                 THEN LET new_path == NewPath(f.path, f.node.keys[f.i])
                          hit  == /\ kid.t = "str"
                                  /\ Len(kid.s) > MinFieldLen
                                  /\ \/ IsTextRelevant(f.node.keys[f.i], kid.s)
                                     \/ IsPotentialGameText(kid.s)
                          down == kid.t \in {"dict", "list"} /\ f.depth < RecurseBelow
                      IN  [w EXCEPT
                             !.found = IF hit THEN @ \o <<FieldRecord(w, new_path, kid)>>
                                       ELSE @,
                             !.stack = IF down
                                       THEN rest \o <<next, Frame(kid, new_path, f.depth + 1)>>
                                       ELSE rest \o <<next>>,
                             !.calls = IF down THEN @ + 1 ELSE @,
                             !.deepest = IF down /\ f.depth + 1 > @ THEN f.depth + 1 ELSE @]
                 ELSE LET down == kid.t \in {"dict", "str"}
                          item_path == f.path \o <<"[">> \o DecStr(f.i - 1) \o <<"]">>
                      IN  [w EXCEPT
                             !.stack = IF down
                                       THEN rest \o <<next, Frame(kid, item_path, f.depth + 1)>>
                                       ELSE rest \o <<next>>,
                             !.calls = IF down THEN @ + 1 ELSE @,
                             !.deepest = IF down /\ f.depth + 1 > @ THEN f.depth + 1 ELSE @,
                             !.widest = IF f.i > @ THEN f.i ELSE @]

-----------------------------------------------------------------------------
(* SpecWalk: one call of search_mono_data on nested, long and               *)
(* self-containing structures                                               *)

MaxChain == 7
MaxItems == 101

WalkTexts == {<<"a", "a", "a", "a">>, <<"a">>, <<"1", "1", "1", "1">>}

\* dicts nested n deep, a text on every level
RECURSIVE DictChain(_, _)
DictChain(n, text) ==
    IF n = 0 THEN DictV(<<KA>>, <<StrV(text)>>)
    ELSE DictV(<<KA, KB>>, <<StrV(text), DictChain(n - 1, text)>>)

\* the same with a list between every two dicts
RECURSIVE ListChain(_, _)
ListChain(n, text) ==
    IF n = 0 THEN DictV(<<KA>>, <<StrV(text)>>)
    ELSE DictV(<<KA, KB>>, <<StrV(text), ListV(<<ListChain(n - 1, text), StrV(text)>>)>>)

\* a dict holding a list of n equal elements
LongList(n, item) == DictV(<<KB>>, <<ListV([k \in 1..n |-> item])>>)

\* structures that contain themselves: a dict that is its own value, a dict
\* in a list of its own, a list that is its own element, and two dicts that
\* hold each other
CyclicHeaps(text) ==
    { <<DictV(<<KA, KB>>, <<StrV(text), RefV(1)>>)>>,
      <<DictV(<<KA, KB>>, <<StrV(text), RefV(2)>>), ListV(<<RefV(1), StrV(text)>>)>>,
      <<ListV(<<RefV(1), StrV(text)>>)>>,
      <<DictV(<<KA, KB>>, <<StrV(text), RefV(2)>>), ListV(<<RefV(2), RefV(1)>>)>>,
      <<DictV(<<KA, KB>>, <<RefV(2), RefV(1)>>), DictV(<<KA, KB>>, <<RefV(1), RefV(2)>>)>> }

WalkInputs ==
    UNION { {[heap |-> <<>>, data |-> DictChain(n, t)] : n \in 0..MaxChain}
              \cup {[heap |-> <<>>, data |-> ListChain(n, t)] : n \in 0..MaxChain}
              \cup {[heap |-> <<>>, data |-> LongList(n, StrV(t))] : n \in {2, MaxItems}}
              \cup {[heap |-> <<>>, data |-> LongList(n, DictV(<<KA>>, <<StrV(t)>>))] :
                      n \in {2, MaxItems}}
              \cup {[heap |-> <<>>, data |-> ListV([k \in 1..MaxItems |-> StrV(t)])]}
              \cup {[heap |-> h, data |-> RefV(1)] : h \in CyclicHeaps(t)}
            : t \in WalkTexts }

WalkFile == [dir |-> <<"d">>, stem |-> <<"d", "a", "t", "a">>, ext |-> ".assets"]

InitWalk ==
    /\ \E in \in WalkInputs : walk = StartWalk(in.heap, in.data, <<"u", "i">>, WalkFile, 2)
    /\ texts = <<>> /\ texts0 = <<>> /\ valid = <<>> /\ report = <<>>
    /\ prevValid = [idx |-> <<>>, recs |-> <<>>]
    /\ runs = 0
    /\ nest = NestIdle /\ asset = AssetIdle /\ mono = MonoIdle
    /\ scan = ScanIdle /\ stop = StopIdle
    /\ LaterIdle
    /\ InjIdle

WalkStep ==
    /\ walk # WalkIdle
    /\ ~walk.done
    /\ walk' = WalkStepOf(walk)
    /\ UNCHANGED <<filterVars, nest, asset, mono, scan, stop, laterVars, injVars>>

NextWalk == WalkStep

SpecWalk == InitWalk /\ [][NextWalk]_vars

\* a call that is running goes on running: Python executes the next
\* statement of the function
SpecWalkLive == SpecWalk /\ WF_vars(WalkStep)

-----------------------------------------------------------------------------
(* The scanner: scan_directory                                              *)
(*                                                                          *)
(* A file of the tree is a record                                           *)
(*   dir, stem, ext  its directory, Path.stem and suffix                    *)
(*   load            "ok" when UnityPy.load (by path, or on the bytes)      *)
(*                   returns an environment, "fail" when both calls raise   *)
(*   objs            env.objects of the loaded file                         *)
(*   raw             the strings extract_all_strings_from_binary finds in   *)
(*                   the bytes of the file; the content of a text file is   *)
(*                   its first                                              *)
(*   gz              "gzip" when the bytes are a gzip stream, else "none"   *)
(*   zraw            the strings found in the decompressed data             *)
(* The compressed files of the model decompress to data in which UnityPy    *)
(* finds no object.                                                         *)

ScanFile(dir, stem, ext, load, objs, raw, gz, zraw) ==
    [dir |-> dir, stem |-> stem, ext |-> ext, load |-> load, objs |-> objs,
     raw |-> raw, gz |-> gz, zraw |-> zraw]

\* str(file_path)
PathOf(f) == [dir |-> f.dir, stem |-> f.stem, ext |-> f.ext]

UnityExtensions == {".assets", ".bundle", ".resource", ".resS", ".dat"}

TextExtensions == {".json", ".xml", ".txt"}

\* str.lower() on the suffixes of the model
LowerExt(ext) == IF ext = ".resS" THEN ".ress" ELSE ext

\* file.lower().endswith('.bundle'), file_path.suffix.lower() == '.bundle'
IsBundleName(f) == LowerExt(f.ext) = ".bundle"

\* any(file.lower().endswith(ext) for ext in unity_extensions)
IsUnityName(f) == \E ext \in UnityExtensions : LowerExt(f.ext) = ext

\* file.lower().endswith(('.json', '.xml', '.txt'))
IsTextName(f) == LowerExt(f.ext) \in TextExtensions

IsRegularName(f) == ~IsBundleName(f) /\ (IsUnityName(f) \/ IsTextName(f))

\* bundle_files[:5]
AnalyzeCap == 5

\* len(content) > 10
MinContentLen == 10

Underscore == <<"_">>

\* strings that is_potential_game_text keeps, in order
RelevantStrings(raw) == SelectSeq(raw, IsPotentialGameText)

\* the records analyze_binary_file appends for a file
BinaryRecords(f) ==
    LET relevant == RelevantStrings(f.raw)
    IN  [k \in 1..Len(relevant) |->
            TextInfo(<<"b", "i", "n", "a", "r", "y">> \o Underscore \o f.stem
                         \o Underscore \o DecStr(k - 1),
                     PathOf(f), <<"BinaryString_">> \o DecStr(k - 1),
                     "BinaryExtraction", FALSE, 0, <<>>, relevant[k],
                     "binary_analysis")]

\* try_decompress_bundle and analyze_decompressed_data: the records appended
\* for a file whose bytes decompress
DecompressedRecords(f) ==
    IF f.gz = "none" THEN <<>>
    ELSE LET relevant == RelevantStrings(f.zraw)
         IN  [k \in 1..Len(relevant) |->
                 TextInfo(<<"d", "e", "c", "o", "m", "p", "r", "e", "s", "s", "e", "d">>
                              \o Underscore \o f.stem \o Underscore
                              \o <<"g", "z", "i", "p">> \o Underscore \o DecStr(k - 1),
                          PathOf(f), <<"DecompressedString_">> \o DecStr(k - 1),
                          "Decompressed_gzip", FALSE, 0, <<>>, relevant[k],
                          "decompression_gzip")]

\* analyze_bundle_structure(bundle_files[:5]): what it appends
RECURSIVE AnalyzeBundleStructure(_)
AnalyzeBundleStructure(bundles) ==
    IF bundles = <<>> THEN <<>>
    ELSE DecompressedRecords(Head(bundles)) \o AnalyzeBundleStructure(Tail(bundles))

FirstN(s, n) == IF Len(s) > n THEN SubSeq(s, 1, n) ELSE s

\* bytes.decode('utf-8', errors='ignore') on the bytes of the model
RECURSIVE DecodeUtf8(_)
DecodeUtf8(bs) ==
    IF bs = <<>> THEN <<>>
    ELSE IF Head(bs) = "61" THEN <<"a">> \o DecodeUtf8(Tail(bs))
    ELSE IF Head(bs) = "20" THEN <<SP>> \o DecodeUtf8(Tail(bs))
    ELSE IF Len(bs) >= 2 /\ Head(bs) = "C3" /\ bs[2] = "A9"
         THEN <<"e'">> \o DecodeUtf8(Tail(Tail(bs)))
    ELSE DecodeUtf8(Tail(bs))

\* a value that Python takes for true
Truthy(v) ==
    CASE v.t \in {"str", "bytes", "bytearray"} -> v.s # <<>>
      [] v.t \in {"int", "float", "bool"}       -> v.n # 0
      [] v.t \in {"dict", "list"}               -> v.kids # <<>>
      [] OTHER                                   -> FALSE

\* get_asset_content
GetAssetContent(obj) ==
    IF Truthy(obj.attrs.text) /\ obj.attrs.text.t = "str" THEN obj.attrs.text.s
    ELSE IF Truthy(obj.attrs.m_Script)
         THEN IF obj.attrs.m_Script.t \in {"bytes", "bytearray"}
              THEN DecodeUtf8(obj.attrs.m_Script.s)
              ELSE obj.attrs.m_Script.s
    ELSE IF Truthy(obj.attrs.bytes) /\ obj.attrs.bytes.t \in {"bytes", "bytearray"}
         THEN DecodeUtf8(obj.attrs.bytes.s)
    ELSE <<>>

\* get_asset_name
GetAssetName(obj) ==
    IF obj.name # <<>> THEN obj.name
    ELSE <<"A", "s", "s", "e", "t", "_">> \o DecStr(obj.path_id)

\* f"{source_file.stem}_{obj.path_id}"
ObjectId(f, obj) == f.stem \o Underscore \o DecStr(obj.path_id)

\* extract_text_asset: the records it appends (none when it returns False)
ExtractTextAsset(obj, f) ==
    LET content == GetAssetContent(obj)
        name    == GetAssetName(obj)
    IN  IF /\ obj.readable
           /\ Len(content) > MinContentLen
           /\ IsTextRelevant(name, content) \/ IsPotentialGameText(content)
        THEN <<TextInfo(ObjectId(f, obj), PathOf(f), name, "TextAsset", TRUE,
                        obj.path_id, <<>>, content, "")>>
        ELSE <<>>

\* the characters of an attribute or type name
NameChars(n) ==
    CASE n = "text"       -> <<"t", "e", "x", "t">>
      [] n = "m_Script"   -> <<"m", "_", "S", "c", "r", "i", "p", "t">>
      [] n = "bytes"      -> <<"b", "y", "t", "e", "s">>
      [] n = "GameObject" -> <<"G", "a", "m", "e", "O", "b", "j", "e", "c", "t">>
      [] OTHER            -> <<"T", "r", "a", "n", "s", "f", "o", "r", "m">>

\* dir(data): the content attributes in the order dir() lists them
DirAttrs == <<"bytes", "m_Script", "text">>

\* extract_from_asset: one record for every string attribute longer than 10
\* characters that is_potential_game_text accepts
RECURSIVE ExtractFromAttrs(_, _, _)
ExtractFromAttrs(obj, f, attrs) ==
    IF attrs = <<>> THEN <<>>
    ELSE LET attr  == Head(attrs)
             value == obj.attrs[attr]
             rest  == ExtractFromAttrs(obj, f, Tail(attrs))
         IN  IF /\ value.t = "str"
                /\ Len(value.s) > MinContentLen
                /\ IsPotentialGameText(value.s)
             THEN <<TextInfo(ObjectId(f, obj) \o Underscore \o NameChars(attr),
                             PathOf(f), GetAssetName(obj) \o <<".">> \o NameChars(attr),
                             obj.type, TRUE, obj.path_id, <<>>, value.s, "")>> \o rest
             ELSE rest

ExtractFromAsset(obj, f) ==
    IF obj.readable THEN ExtractFromAttrs(obj, f, DirAttrs) ELSE <<>>

\* extract_gameobject_text: of text_properties the objects of the model have
\* 'text'
ExtractGameObjectText(obj, f) ==
    LET value == obj.attrs.text
    IN  IF /\ obj.readable
           /\ value.t = "str" /\ Len(value.s) > MinFieldLen
           /\ IsPotentialGameText(value.s)
        THEN <<TextInfo(ObjectId(f, obj) \o Underscore \o NameChars(obj.type),
                        PathOf(f), GetAssetName(obj), obj.type, TRUE, obj.path_id,
                        <<>>, value.s, "")>>
        ELSE <<>>

\* extract_monobehaviour_il2cpp: the structure handed to search_mono_data.
\* read_typetree() first; without a typetree, the properties
\* extract_il2cpp_properties finds ('text' of the listed ones; without it,
\* the str attributes dir(data) shows); without any, the strings of
\* obj.get_raw_data()
MonoDataOf(obj) ==
    IF obj.tree.t # "none" THEN obj.tree
    ELSE IF obj.attrs.text.t \notin {"absent", "none"}
    THEN DictV(<<NameChars("text")>>, <<obj.attrs.text>>)
    ELSE IF obj.attrs.m_Script.t = "str"
    THEN DictV(<<NameChars("m_Script")>>, <<obj.attrs.m_Script>>)
    ELSE DictV(<<<<"r", "a", "w", "_", "s", "t", "r", "i", "n", "g", "s">>>>,
               <<ListV(<<>>)>>)

\* process_text_file
ProcessTextFile(f) ==
    LET content == IF f.raw = <<>> THEN <<>> ELSE f.raw[1]
    IN  IF /\ IsTextRelevant(f.stem, <<>>)
           /\ Len(content) > MinContentLen
           /\ ContainsDialoguePattern(content) \/ IsPotentialGameText(content)
        THEN <<TextInfo(<<"t", "e", "x", "t", "f", "i", "l", "e">> \o Underscore
                            \o f.stem,
                        PathOf(f), f.stem, "TextFile", FALSE, 0, <<>>, content, "")>>
        ELSE <<>>

\* the variable `scan`:
\*   tree           the files os.walk meets, in its order
\*   all_files, i   the list scan_directory loops over and its position
\*   pc             "collect", "analyze", "open", "object", "walk", "close",
\*                  "done"
\*   j              the object process_unity_objects is at
\*   extracted_texts, mono_success   its two counters
\*   found_texts    the inventory
\*   swept          history: the files analyze_binary_file was called on
StartScan(tree) ==
    [tree |-> tree, all_files |-> <<>>, bundle_files |-> <<>>, i |-> 1,
     pc |-> "collect", j |-> 1, extracted_texts |-> 0, mono_success |-> 0,
     found_texts |-> <<>>, swept |-> {}, done |-> FALSE]

ScanCur == scan.all_files[scan.i]

\* the list scan_directory loops over: the bundles, then the other files
CollectFiles(tree) ==
    [bundle_files |-> SelectSeq(tree, IsBundleName),
     all_files    |-> SelectSeq(tree, IsBundleName) \o SelectSeq(tree, IsRegularName)]

-----------------------------------------------------------------------------
(* SpecScan: one pass of scan_directory over a tree of at most MaxFiles     *)
(* files                                                                    *)

MaxFiles == 2

LongText == <<"a", "a", "a", "a", SP, "a", "a", "a", "a", "a", "a">>
FieldText == <<"a", "a", "a", "a">>
NumberText == <<"1", "1", "1", "1">>

StemData == <<"d", "a", "t", "a">>
StemLines == <<"l", "i", "n", "e", "s">>

ScanTextAsset ==
    MkObject(1, "TextAsset", <<"d", "l", "g">>, StrV(LongText), Absent, Absent,
             NoneV, TRUE, TRUE)

\* a MonoBehaviour {a_b: text, a: {b: text}}
ScanMono ==
    MkObject(1, "MonoBehaviour", <<"u", "i">>, Absent, Absent, Absent,
             DictV(<<<<"a", "_", "b">>, KA>>,
                   <<StrV(FieldText), DictV(<<KB>>, <<StrV(FieldText)>>)>>),
             TRUE, TRUE)

ScanGameObject ==
    MkObject(2, "GameObject", <<"g", "o">>, StrV(FieldText), Absent, Absent,
             NoneV, TRUE, TRUE)

ScanFont ==
    MkObject(3, "Font", <<"f">>, StrV(LongText), Absent, Absent, NoneV, TRUE, TRUE)

\* what a container of the model can hold: objects of every kind, no object,
\* or bytes UnityPy cannot load, with and without strings in them
ContainerContents ==
    { [load |-> "ok", objs |-> <<ScanTextAsset>>, raw |-> <<>>],
      [load |-> "ok", objs |-> <<ScanMono>>, raw |-> <<>>],
      [load |-> "ok", objs |-> <<ScanGameObject, ScanFont>>, raw |-> <<>>],
      [load |-> "ok", objs |-> <<>>, raw |-> <<FieldText>>],
      [load |-> "fail", objs |-> <<>>, raw |-> <<FieldText, NumberText, FieldText>>],
      [load |-> "fail", objs |-> <<>>, raw |-> <<>>] }

FewContents ==
    { [load |-> "ok", objs |-> <<ScanTextAsset>>, raw |-> <<>>],
      [load |-> "fail", objs |-> <<>>, raw |-> <<FieldText>>] }

ScanPool ==
    {ScanFile(<<"d">>, StemData, ext, c.load, c.objs, c.raw, "none", <<>>) :
        ext \in {".assets", ".bundle"}, c \in ContainerContents}
      \cup {ScanFile(<<"d">>, StemData, ext, c.load, c.objs, c.raw, "none", <<>>) :
              ext \in {".resource", ".resS", ".dat"}, c \in FewContents}
      \cup {ScanFile(<<"e">>, StemData, ".assets", c.load, c.objs, c.raw, "none", <<>>) :
              c \in FewContents}
      \cup {ScanFile(<<"d">>, StemData, ".bundle", "fail", <<>>, <<FieldText>>,
                     "gzip", <<FieldText>>)}
      \cup {ScanFile(<<"d">>, StemLines, ext, "fail", <<>>, <<LongText>>, "none", <<>>) :
              ext \in {".txt", ".json"}}
      \cup {ScanFile(<<"d">>, StemData, ".png", "fail", <<>>, <<FieldText>>, "none", <<>>)}

\* file trees: no two files at the same path
ScanTrees ==
    {t \in SeqsUpTo(ScanPool, MaxFiles) :
        /\ t # <<>>
        /\ \A a, b \in DOMAIN t : a # b => PathOf(t[a]) # PathOf(t[b])}

InitScan ==
    /\ \E tree \in ScanTrees : scan = StartScan(tree)
    /\ walk = WalkIdle
    /\ texts = <<>> /\ texts0 = <<>> /\ valid = <<>> /\ report = <<>>
    /\ prevValid = [idx |-> <<>>, recs |-> <<>>]
    /\ runs = 0
    /\ nest = NestIdle /\ asset = AssetIdle /\ mono = MonoIdle
    /\ stop = StopIdle
    /\ LaterIdle
    /\ InjIdle

\* the position after the file the loop is at
ScanAdvance(s) ==
    [s EXCEPT !.i = s.i + 1, !.j = 1, !.extracted_texts = 0, !.mono_success = 0,
              !.pc = IF s.i + 1 > Len(s.all_files) THEN "done" ELSE "open",
              !.done = (s.i + 1 > Len(s.all_files))]

\* lines 46-74: os.walk, the two lists, and the detailed analysis of the
\* first bundles
ScanCollect ==
    /\ scan.pc = "collect"
    /\ LET c == CollectFiles(scan.tree)
       IN  scan' = [scan EXCEPT
                      !.bundle_files = c.bundle_files,
                      !.all_files = c.all_files,
                      !.found_texts =
                          IF c.bundle_files # <<>>
                          THEN AnalyzeBundleStructure(FirstN(c.bundle_files, AnalyzeCap))
                          ELSE <<>>,
                      !.pc = IF c.all_files = <<>> THEN "done" ELSE "open",
                      !.done = (c.all_files = <<>>)]
    /\ UNCHANGED <<filterVars, nest, asset, mono, walk, stop, laterVars, injVars>>

\* lines 82-87 for the file the loop is at: a bundle or another container
\* goes to process_unity_file, which loads it; a text file is processed whole
ScanOpenFile ==
    /\ scan.pc = "open"
    /\ LET f == ScanCur
       IN  IF IsBundleName(f) \/ IsUnityName(f)
           THEN scan' = [scan EXCEPT
                           !.pc = IF f.load = "ok" /\ f.objs # <<>>
                                  THEN "object" ELSE "close"]
           ELSE scan' = ScanAdvance([scan EXCEPT
                                       !.found_texts = @ \o ProcessTextFile(f)])
    /\ UNCHANGED <<filterVars, nest, asset, mono, walk, stop, laterVars, injVars>>

\* process_unity_objects: the next object of the loaded file
ScanObject ==
    /\ scan.pc = "object"
    /\ scan.j <= Len(ScanCur.objs)
    /\ LET f   == ScanCur
           obj == f.objs[scan.j]
           got(recs) == [scan EXCEPT
                           !.found_texts = @ \o recs,
                           !.extracted_texts = IF recs # <<>> THEN @ + 1 ELSE @,
                           !.j = @ + 1]
       IN  IF obj.type = "TextAsset"
           THEN scan' = got(ExtractTextAsset(obj, f)) /\ walk' = walk
           ELSE IF obj.type = "MonoBehaviour"
           THEN IF obj.readable /\ Truthy(MonoDataOf(obj))
                THEN /\ scan' = [scan EXCEPT !.pc = "walk"]
                     /\ walk' = StartWalk(<<>>, MonoDataOf(obj), GetAssetName(obj),
                                          PathOf(f), obj.path_id)
                ELSE scan' = [scan EXCEPT !.j = @ + 1] /\ walk' = walk
           ELSE IF obj.type \in {"GameObject", "Transform", "RectTransform"}
           THEN scan' = got(ExtractGameObjectText(obj, f)) /\ walk' = walk
           ELSE scan' = got(ExtractFromAsset(obj, f)) /\ walk' = walk
    /\ UNCHANGED <<filterVars, nest, asset, mono, stop, laterVars, injVars>>

\* search_mono_data has returned to extract_monobehaviour_il2cpp, which
\* returns True; the records it appended are in found_texts
ScanWalkReturn ==
    /\ scan.pc = "walk"
    /\ walk.done
    /\ scan' = [scan EXCEPT !.found_texts = @ \o walk.found,
                            !.mono_success = @ + 1,
                            !.j = @ + 1,
                            !.pc = "object"]
    /\ walk' = WalkIdle
    /\ UNCHANGED <<filterVars, nest, asset, mono, stop, laterVars, injVars>>

\* process_unity_file returns; process_bundle_file calls
\* analyze_binary_file(aggressive=True) when it returned False; for any
\* other container the returned value is dropped
ScanCloseFile ==
    /\ \/ scan.pc = "close"
       \/ scan.pc = "object" /\ scan.j > Len(ScanCur.objs)
    /\ LET f == ScanCur
           success == scan.extracted_texts > 0 \/ scan.mono_success > 0
       IN  IF IsBundleName(f) /\ ~success
           THEN scan' = ScanAdvance([scan EXCEPT
                           !.found_texts = @ \o DecompressedRecords(f) \o BinaryRecords(f),
                           !.swept = @ \cup {PathOf(f)}])
           ELSE scan' = ScanAdvance(scan)
    /\ UNCHANGED <<filterVars, nest, asset, mono, walk, stop, laterVars, injVars>>

NextScan ==
    \/ ScanCollect
    \/ ScanOpenFile
    \/ ScanObject
    \/ WalkStep
    \/ ScanWalkReturn
    \/ ScanCloseFile

SpecScan == InitScan /\ [][NextScan]_vars

-----------------------------------------------------------------------------
(* Claims about the injection run (Spec) *)

\* between the entry of _inject_file_translations_safe for a file and the
\* counting of its result
InFile ==
    pc \in {"backup", "dispatch", "load", "mutate", "serialize", "verify_temp",
            "safety_copy", "replace", "verify_final", "restore", "finally",
            "count"}

BeforeCommit ==
    pc \in {"backup", "dispatch", "load", "mutate", "serialize", "verify_temp",
            "safety_copy"}

\* C1 (as stated): when the container pipeline has returned for a file, on
\* whatever path, the live container holds either the content it had when
\* the pipeline was entered or the content of the working copy that passed
\* verification.
C1_AllOrNothing ==
    (pc = "count" /\ preCall.kind # "none") =>
        \/ live[CurFile] = preCall
        \/ verifiedTemp.kind # "none" /\ live[CurFile] = verifiedTemp

\* C2: in the container pipeline the live file keeps its pre-run content
\* through backup, load, mutation, serialization and verification, and it is
\* written only once the rewritten working copy has passed
\* _verify_unity_file_complete_integrity.
C2_CommitAfterVerify ==
    (InFile /\ IsContainerName(CurFile)) =>
        /\ CurFile \in written => verifiedTemp.kind # "none"
        /\ BeforeCommit => (live[CurFile] = live0[CurFile] /\ CurFile \notin written)

\* C2 witness: the replacement has put the verified working copy in place of
\* the live container.
C2_Witness ==
    /\ pc = "verify_final"
    /\ CurFile \in written
    /\ live[CurFile] = verifiedTemp
    /\ live[CurFile] # live0[CurFile]

\* C3: a file whose live content has been written in the run has, in the
\* backup directory, a copy equal to its pre-run content; a file whose
\* create_backup returned False is never written and keeps its content.
C3_BackupBeforeWrite ==
    \A f \in GameFiles :
        /\ f \in written => backup[f] = live0[f]
        /\ f \in aborted => (f \notin written /\ live[f] = live0[f])

\* C3 witness: the run has ended with one file rewritten, its pre-run
\* content in the backup directory, and another file given up for want
\* of a backup.
C3_Witness ==
    /\ pc = "done"
    /\ \E f \in written : backup[f] = live0[f] /\ live[f] # live0[f]
    /\ aborted # {}

\* number of records _group_by_source_file put under the file
GroupSize(f) ==
    Cardinality({k \in DOMAIN valid : texts[valid[k]].source_file = f})

\* C4 (as stated): after the run, a container whose rewritten content failed
\* a verification holds its pre-run content, and its records (all of them,
\* and only them) were added to error_count.
C4_FailedVerifyKeepsOriginal ==
    pc = "done" =>
        \A f \in failedVerify :
            /\ live[f] = live0[f]
            /\ counted[f] = [err |-> GroupSize(f), succ |-> 0]

-----------------------------------------------------------------------------
(* Claims about the record filter (SpecFilter) *)

HandedOverWithNul(i) == HasChar(texts0[i].translated_text, NUL)

C6_ClaimedSurvivor(i) ==
    /\ texts[i].is_translated
    /\ texts[i].translated_text # <<>>
    /\ texts[i].translated_text # texts[i].original_text
    /\ texts[i].source_file # "" /\ texts[i].source_file \in ExistingFiles
    /\ texts[i].has_path_id

C6_FilterExact ==
    runs = 1 =>
        /\ \A i \in DOMAIN texts : i \in Range(valid) <=> C6_ClaimedSurvivor(i)
        /\ \A j, k \in DOMAIN valid : j < k => valid[j] < valid[k]

\* C7: a second application of the filter, to the inventory as the first
\* left it, yields the same surviving records as the first.
C7_FilterIdempotent ==
    runs >= 2 =>
        /\ valid = prevValid.idx
        /\ EntriesAt(texts, valid) = prevValid.recs

\* C7 witness: the filter has run twice on an inventory whose texts the first
\* run changed, and records survive.
C7_Witness ==
    /\ runs = 2
    /\ valid # <<>>
    /\ \E i \in Range(valid) : texts[i].translated_text # texts0[i].translated_text

-----------------------------------------------------------------------------
(* Claims about _set_nested_value (SpecNested) *)

\* the positions (as child indices from the root) at which two structures
\* differ: below nodes of the same kind, keys and length the positions of
\* the children that differ, else the node itself
RECURSIVE DiffSites(_, _)
DiffSites(t1, t2) ==
    IF t1 = t2 THEN {}
    ELSE IF /\ t1.t = t2.t /\ IsContainer(t1)
            /\ t1.keys = t2.keys /\ Len(t1.kids) = Len(t2.kids)
    THEN UNION { {<<i>> \o p : p \in DiffSites(t1.kids[i], t2.kids[i])} :
                 i \in DOMAIN t1.kids }
    ELSE {<<>>}

RECURSIVE SubtreeAt(_, _)
SubtreeAt(t, p) == IF p = <<>> THEN t ELSE SubtreeAt(t.kids[Head(p)], Tail(p))

\* C10 (as stated): a successful _set_nested_value changes the structure at
\* one leaf at most, which then holds the value; no key or element is added
\* or removed anywhere; a failed call leaves the structure as it was.
C10_LeafOnly ==
    nest.done =>
        IF nest.ok
        THEN LET sites == DiffSites(nest.tree, nest.result)
             IN  /\ Cardinality(sites) <= 1
                 /\ \A p \in sites :
                        /\ ~IsContainer(SubtreeAt(nest.tree, p))
                        /\ SubtreeAt(nest.result, p) = nest.value
        ELSE nest.result = nest.tree

\* What _set_nested_value does guarantee (beside C10): a successful call
\* changes the structure at the one position field_path addresses and nowhere
\* else: what was stored there (a leaf, or a whole mapping or list) is
\* replaced by the value, and reading the path back yields the value; a
\* failed call leaves the structure as it was.
SetNestedValue_SlotOnly ==
    nest.done =>
        IF nest.ok
        THEN LET sites == DiffSites(nest.tree, nest.result)
             IN  /\ Cardinality(sites) <= 1
                 /\ \A p \in sites : SubtreeAt(nest.result, p) = nest.value
                 /\ GetNestedValue(nest.result, nest.path) = nest.value
        ELSE nest.result = nest.tree

\* a call with a dotted path through a list index succeeded and changed a
\* leaf
SetNestedValue_LeafChanged ==
    /\ nest.done /\ nest.ok
    /\ Len(SplitOn(nest.path, ".")) >= 2
    /\ IsIndexed(SplitOn(nest.path, ".")[1])
    /\ nest.result # nest.tree
    /\ ~IsContainer(GetNestedValue(nest.tree, nest.path))

-----------------------------------------------------------------------------
(* Claims about _modify_text_asset_safe (SpecAsset) *)

IsByteString(v) == v.t \in {"bytes", "bytearray"}

\* C9: a modified TextAsset is changed in one content attribute, one the
\* object had; that attribute keeps its kind: a bytes or bytearray original
\* now holds the UTF-8 bytes of the translated text, a str original holds the
\* translated text as a str; a TextAsset that is not modified is unchanged.
C9_TypePreserved ==
    asset.done =>
        IF asset.ok
        THEN \E a \in {"text", "m_Script", "bytes"} :
                /\ asset.obj.attrs[a].t # "absent"
                /\ \A b \in {"text", "m_Script", "bytes"} \ {a} :
                        asset.result.attrs[b] = asset.obj.attrs[b]
                /\ \/ /\ IsByteString(asset.obj.attrs[a])
                      /\ asset.result.attrs[a] = BytesV(Utf8(asset.entry.translated_text))
                   \/ /\ asset.obj.attrs[a].t = "str"
                      /\ asset.result.attrs[a] = StrV(asset.entry.translated_text)
        ELSE asset.result = asset.obj

\* C9 witness: a TextAsset whose content is a byte-string m_Script was
\* modified with a text holding an accented letter.
C9_Witness ==
    /\ asset.done /\ asset.ok
    /\ asset.obj.attrs.text.t = "absent"
    /\ asset.obj.attrs.m_Script.t = "bytes"
    /\ asset.entry.translated_text = <<"e'", "a">>

-----------------------------------------------------------------------------
(* Claims about the handling of the records of one container (Spec) *)

\* the record, taken alone, modifies the object
AppliesTo(e, obj) == ModifyObject(obj, <<e>>).ok

\* the object loop has just ended: env holds its result and the working copy
\* still holds the objects as they were loaded
MutateDone ==
    /\ pc \in {"serialize", "finally"}
    /\ env # <<>>
    /\ temp.kind = "unity"

\* C12 (as stated): after the object loop, an object aimed at by failing
\* records only is as it was loaded, and an object aimed at by one record
\* that applies and otherwise by failing records only carries that record's
\* text; and a working copy written in full with every object readable is
\* not rejected, so that a failing record never fails the file.
C12_FailureIsolated ==
    /\ MutateDone =>
          \A i \in DOMAIN env :
            LET aimed == {k \in DOMAIN CurEntries :
                            /\ PathIdPresent(CurEntries[k])
                            /\ CurEntries[k].path_id = temp.objs[i].path_id}
                good  == {k \in aimed : AppliesTo(CurEntries[k], temp.objs[i])}
            IN  /\ good = {} => env[i] = temp.objs[i]
                /\ \A k \in good :
                       good = {k} =>
                          env[i] = ModifyObject(temp.objs[i], <<CurEntries[k]>>).obj
    /\ (pc = "finally" /\ CurFile \in failedVerify /\ CurFile \notin written) =>
          \/ temp.kind # "unity"
          \/ \E i \in DOMAIN temp.objs : ~temp.objs[i].readable

\* C13 (as stated): a rewritten working copy that passed
\* _verify_unity_file_complete_integrity has every object readable, and its
\* TextAsset and MonoBehaviour objects aimed at by a record are coherent.
C13_VerifiedAllReadable ==
    verifiedTemp.kind # "none" =>
        \A i \in DOMAIN verifiedTemp.objs :
            LET obj == verifiedTemp.objs[i]
            IN  /\ obj.readable
                /\ obj.path_id \in EntryPathIds(CurEntries) =>
                      /\ obj.type = "TextAsset" => VerifyTextAssetCoherence(obj)
                      /\ obj.type = "MonoBehaviour" => VerifyMonoBehaviourCoherence(obj)

\* the records the filter kept for the file
ValidEntriesOf(f) ==
    {texts[valid[k]] : k \in {j \in DOMAIN valid : texts[valid[j]].source_file = f}}

TranslatedFor(f) ==
    {i \in DOMAIN texts :
        /\ texts[i].source_file = f
        /\ texts[i].is_translated
        /\ texts[i].translated_text # <<>>
        /\ texts[i].translated_text # texts[i].original_text}

\* C15 (as stated): after the run, a plain-text file targeted by exactly one
\* translated record holds that record's translated_text and the record was
\* counted as a success; a plain-text file targeted by several is as it was
\* and its records were counted as errors.
C15_PlainTextRule ==
    pc = "done" =>
        \A f \in {g \in GameFiles : ~IsContainerName(g)} :
            LET n == Cardinality(TranslatedFor(f))
            IN  /\ n = 1 =>
                      /\ \A i \in TranslatedFor(f) :
                            live[f] = PlainFile(texts[i].translated_text)
                      /\ counted[f] = [err |-> 0, succ |-> 1]
                /\ n > 1 =>
                      /\ live[f] = live0[f]
                      /\ counted[f] = [err |-> n, succ |-> 0]

-----------------------------------------------------------------------------
(* Claims about _modify_monobehaviour_safe (SpecMono) *)

\* the types the type-coerced write is claimed for
CoercedTypes == {"str", "bytes", "int", "float", "bool"}

\* the text can be converted to the type
Convertible(text, type) ==
    /\ type = "int" => ParseInt(text).ok
    /\ type = "float" => ParseFloat(text).ok

\* C11 (as stated): for a field holding a str, bytes, int, float or bool, a
\* translated text that cannot be converted to the field's type makes
\* _modify_monobehaviour_safe skip the record and leave the object as it
\* was; otherwise a successful call leaves a value of the original type in
\* the field.
C11_MismatchSkipped ==
    mono.done =>
        LET original == GetNestedValue(mono.obj.tree, mono.entry.field_path)
            after    == GetNestedValue(mono.result.tree, mono.entry.field_path)
        IN  original.t \in CoercedTypes =>
                IF Convertible(mono.entry.translated_text, original.t)
                THEN mono.ok => after.t = original.t
                ELSE ~mono.ok /\ mono.result = mono.obj

-----------------------------------------------------------------------------
(* Claims about the records of the Binary String Sweep (SpecBinary) *)

\* C17: after the object loop, an object whose record is a BinaryExtraction
\* record is as it was loaded; and the filter reports every BinaryExtraction
\* record of the inventory as ignored
C17_BinaryNeverInjected ==
    /\ MutateDone =>
          \A i \in DOMAIN env :
              (/\ HasEntryFor(CurEntries, temp.objs[i].path_id)
               /\ EntryFor(CurEntries, temp.objs[i].path_id).asset_type
                      = "BinaryExtraction")
                  => env[i] = temp.objs[i]
    /\ runs > 0 =>
          \A k \in DOMAIN texts :
              texts[k].asset_type = "BinaryExtraction" => report[k] # "valid"

-----------------------------------------------------------------------------
(* Claims about search_mono_data (SpecWalkLive) *)

\* C18: a call of search_mono_data returns, on structures that contain
\* themselves too; no activation runs at a depth above the depth limit, and
\* no list has an element beyond its first 100 looked at
C18_DepthBound ==
    /\ <>(walk.done)
    /\ [](walk.deepest <= DepthLimit /\ walk.widest <= ListCap)

\* a finished call on a structure that contains itself, or on a list of more
\* than 100 elements, that went down to the deepest level it ever reaches
C18_Witness ==
    /\ walk.done
    /\ walk.widest = ListCap \/ (walk.heap # <<>> /\ walk.deepest = RecurseBelow)

-----------------------------------------------------------------------------
(* Claims about scan_directory (SpecScan) *)

\* the container suffixes the scanner is specified to route through the
\* object reader
CandidateSuffixes == {".assets", ".bundle", ".resource", ".resS", ".dat"}

\* C16: at the end of a pass, every file of the tree with a container suffix
\* whose structured load failed has been swept for strings, and every
\* relevant string of its bytes is in the inventory as a record of that file
\* with asset_type BinaryExtraction and an extraction_method
C16_FallbackSweep ==
    scan.done =>
        \A k \in DOMAIN scan.tree :
            LET f == scan.tree[k]
            IN  (f.ext \in CandidateSuffixes /\ f.load = "fail") =>
                    /\ PathOf(f) \in scan.swept
                    /\ \A s \in Range(RelevantStrings(f.raw)) :
                          \E r \in DOMAIN scan.found_texts :
                              /\ scan.found_texts[r].source_file = PathOf(f)
                              /\ scan.found_texts[r].asset_type = "BinaryExtraction"
                              /\ scan.found_texts[r].extraction_method # ""
                              /\ scan.found_texts[r].original_text = s

\* C19: no two records of the inventory have the same id
C19_IdsUnique ==
    \A a, b \in DOMAIN scan.found_texts :
        a # b => scan.found_texts[a].id # scan.found_texts[b].id

-----------------------------------------------------------------------------
(* Claims about the stop button (SpecStop) *)

\* C20: once a stop was requested during a pass, no group after the one
\* that was in the pipeline at that moment enters the pipeline
C20_StopHonoured ==
    (stop.requested /\ InFile) => file_index <= stop.last

-----------------------------------------------------------------------------
(* The batch translation drivers: OpenAITranslator.batch_translate,         *)
(* IntelligentTranslatorAdapter.batch_translate and                         *)
(* batch_translate_sequences                                                *)
(*                                                                          *)
(* The variable `batch`:                                                    *)
(*   driver     "openai", "adapter" or "sequences"                          *)
(*   texts      the list handed over; the drivers write into its records    *)
(*   todo       the records the driver loops over, as indices into texts    *)
(*              (for "sequences": the groups, each a sequence of indices)   *)
(*   pc         "start", "loop", "group", "entry", "verify", "done"        *)
(*   i, g       position in the loop / in the groups                        *)
(*   flag       what should_stop() returns: the stop flag of the GUI        *)
(*   translated_count                                                       *)
(*   stopSeen   history: should_stop() has returned True                    *)
(*   evals, calls   history: evaluations of should_stop, translation calls  *)
(*   sentAfter, changedAfter   history: a translation call was made, a      *)
(*              record was written, after should_stop() returned True       *)

EnText == <<"a">>
FrText == <<"e'">>
FixedText == <<"e'", "a">>

BatchRecord(orig, trans, tr, key, pid) ==
    [original_text |-> orig, translated_text |-> trans, is_translated |-> tr,
     key |-> key, path_id |-> pid]

\* t for t in texts if not t.get('is_translated', False)
\* [and t.get('original_text', '').strip()]
Untranslated(list, needText) ==
    LET keep(k) == /\ ~list[k].is_translated
                   /\ needText => Strip(list[k].original_text) # <<>>
        idx == [k \in DOMAIN list |-> k]
    IN  SelectSeq(idx, keep)

\* group_texts_into_sequences: the keys in the order of their first record,
\* the records of a key sorted by path_id (the sort is stable)
PathIds == <<1, 2>>

RECURSIVE KeysInOrder(_, _)
KeysInOrder(list, idx) ==
    IF idx = <<>> THEN <<>>
    ELSE LET k    == list[Head(idx)].key
             rest == SelectSeq(Tail(idx), LAMBDA j : list[j].key # k)
         IN  <<k>> \o KeysInOrder(list, rest)

SortedItems(list, idx, key) ==
    LET of(pid) == SelectSeq(idx, LAMBDA j : list[j].key = key /\ list[j].path_id = pid)
    IN  of(PathIds[1]) \o of(PathIds[2])

GroupTextsIntoSequences(list, idx) ==
    LET keys == KeysInOrder(list, idx)
    IN  [n \in DOMAIN keys |-> SortedItems(list, idx, keys[n])]

\* what the translation service can answer for a record: the text unchanged,
\* a translation, or an error
TranslateOutcomes == {"same", "new", "raise"}

\* verify_and_correct_sequence_translation: the entries that go into the
\* verification prompt (original and translation both non-blank)
SequencePairs(list, items) ==
    SelectSeq(items, LAMBDA j : /\ Strip(list[j].original_text) # <<>>
                                /\ Strip(list[j].translated_text) # <<>>)

\* len(sequence_pairs) < 2
MinPairs == 2

StartBatch(driver, list, available) ==
    [driver |-> driver, texts |-> list, available |-> available,
     todo |-> <<>>, pc |-> "start", i |-> 1, g |-> 1, flag |-> FALSE,
     translated_count |-> 0, stopSeen |-> FALSE, evals |-> 0, calls |-> 0,
     sentAfter |-> FALSE, changedAfter |-> FALSE, done |-> FALSE]

\* the records one entry of todo stands for
BatchItems(b) == IF b.driver = "sequences" THEN b.todo[b.g] ELSE b.todo

\* should_stop and should_stop()
ShouldStop(b) == [b EXCEPT !.evals = @ + 1, !.stopSeen = @ \/ b.flag]

\* translate_text / translate_with_context for record j, and the update of
\* the record that follows it
TranslateEntry(b, j, outcome) ==
    LET sent == [b EXCEPT !.calls = @ + 1, !.sentAfter = @ \/ b.stopSeen]
    IN  IF outcome = "new"
        THEN [sent EXCEPT !.texts[j].translated_text = FrText,
                          !.texts[j].is_translated = TRUE,
                          !.translated_count = @ + 1,
                          !.changedAfter = @ \/ b.stopSeen]
        ELSE IF outcome = "same" /\ b.driver = "sequences"
        \* entry['is_translated'] = True, "pour éviter les re-tentatives"
        THEN [sent EXCEPT !.texts[j].is_translated = TRUE,
                          !.changedAfter = @ \/ b.stopSeen]
        ELSE sent

\* the first lines of the three drivers: no client (or no text) returns 0,
\* otherwise the records to translate are selected
BatchStart ==
    /\ batch # BatchIdle /\ batch.pc = "start"
    /\ LET idx    == Untranslated(batch.texts, batch.driver # "openai")
           groups == GroupTextsIntoSequences(batch.texts, idx)
       IN  batch' = IF ~batch.available \/ batch.texts = <<>> \/ idx = <<>>
                    THEN [batch EXCEPT !.pc = "done", !.done = TRUE]
                    ELSE IF batch.driver = "sequences"
                    THEN [batch EXCEPT !.todo = groups, !.pc = "group"]
                    ELSE [batch EXCEPT !.todo = idx, !.pc = "loop"]
    /\ UNCHANGED <<filterVars, nest, asset, mono, walk, scan, stop, gui, lps, restored, injVars>>

\* one iteration of the loop of batch_translate (both translators)
BatchLoop ==
    /\ batch # BatchIdle /\ batch.pc = "loop"
    /\ \E outcome \in TranslateOutcomes :
         LET b == ShouldStop(batch)
         IN  batch' = IF batch.i > Len(batch.todo)
                      THEN [batch EXCEPT !.pc = "done", !.done = TRUE]
                      ELSE IF b.flag
                      THEN [b EXCEPT !.pc = "done", !.done = TRUE]
                      ELSE [TranslateEntry(b, b.todo[b.i], outcome) EXCEPT !.i = @ + 1]
    /\ UNCHANGED <<filterVars, nest, asset, mono, walk, scan, stop, gui, lps, restored, injVars>>

\* batch_translate_sequences, head of the loop over the sequences
BatchGroup ==
    /\ batch # BatchIdle /\ batch.pc = "group"
    /\ LET b == ShouldStop(batch)
       IN  batch' = IF batch.g > Len(batch.todo)
                    THEN [batch EXCEPT !.pc = "done", !.done = TRUE]
                    ELSE IF b.flag
                    THEN [b EXCEPT !.pc = "done", !.done = TRUE]
                    ELSE [b EXCEPT !.pc = "entry", !.i = 1]
    /\ UNCHANGED <<filterVars, nest, asset, mono, walk, scan, stop, gui, lps, restored, injVars>>

\* batch_translate_sequences, one iteration of the loop over the entries of
\* the sequence; leaving the loop (its end, or the break) goes on to the
\* verification of the sequence
BatchEntry ==
    /\ batch # BatchIdle /\ batch.pc = "entry"
    /\ \E outcome \in TranslateOutcomes :
         LET b     == ShouldStop(batch)
             items == BatchItems(batch)
             j     == items[batch.i]
         IN  batch' = IF batch.i > Len(items)
                      THEN [batch EXCEPT !.pc = "verify"]
                      ELSE IF b.flag
                      THEN [b EXCEPT !.pc = "verify"]
                      ELSE IF /\ b.texts[j].is_translated
                              /\ Strip(b.texts[j].translated_text) # <<>>
                      THEN [b EXCEPT !.i = @ + 1]
                      ELSE [TranslateEntry(b, j, outcome) EXCEPT !.i = @ + 1]
    /\ UNCHANGED <<filterVars, nest, asset, mono, walk, scan, stop, gui, lps, restored, injVars>>

\* verify_and_correct_sequence_translation(seq_items, seq_context): with two
\* pairs or more the service is asked, and a correction it answers for pair
\* k (0: none) is written into that entry's translated_text
BatchVerify ==
    /\ batch # BatchIdle /\ batch.pc = "verify"
    /\ LET pairs == SequencePairs(batch.texts, BatchItems(batch))
       IN  \E k \in 0 .. Len(pairs) :
             LET next == [batch EXCEPT !.pc = "group", !.g = @ + 1]
             IN  batch' = IF /\ Len(pairs) >= MinPairs
                             /\ k > 0
                             /\ batch.texts[pairs[k]].translated_text # FixedText
                          THEN [next EXCEPT !.texts[pairs[k]].translated_text = FixedText,
                                            !.changedAfter = @ \/ batch.stopSeen]
                          ELSE next
    /\ UNCHANGED <<filterVars, nest, asset, mono, walk, scan, stop, gui, lps, restored, injVars>>

\* stop_translation = True, set by the GUI thread while the worker runs
BatchUserStop ==
    /\ batch # BatchIdle /\ ~batch.done /\ ~batch.flag
    /\ batch' = [batch EXCEPT !.flag = TRUE]
    /\ UNCHANGED <<filterVars, nest, asset, mono, walk, scan, stop, gui, lps, restored, injVars>>

\* no inventory loaded in the management tool
FilterIdle ==
    /\ texts = <<>> /\ texts0 = <<>> /\ valid = <<>> /\ report = <<>>
    /\ prevValid = [idx |-> <<>>, recs |-> <<>>]
    /\ runs = 0

MaxBatch == 3
BatchKeys == {"k1", "k2"}
BatchDrivers == {"openai", "adapter", "sequences"}

BatchPool ==
    {BatchRecord(EnText, EnText, FALSE, k, p) : k \in BatchKeys, p \in {1, 2}}
      \cup {BatchRecord(EnText, FrText, TRUE, "k1", 1),
            BatchRecord(<<SP>>, <<SP>>, FALSE, "k1", 1)}

InitBatch ==
    /\ \E d \in BatchDrivers, ts \in SeqsUpTo(BatchPool, MaxBatch), av \in BOOLEAN :
         batch = StartBatch(d, ts, av)
    /\ gui = GuiIdle /\ lps = LpsIdle /\ restored = RestoredIdle
    /\ nest = NestIdle /\ asset = AssetIdle /\ mono = MonoIdle
    /\ walk = WalkIdle /\ scan = ScanIdle /\ stop = StopIdle
    /\ FilterIdle /\ InjIdle

NextBatch ==
    \/ BatchStart
    \/ BatchLoop
    \/ BatchGroup
    \/ BatchEntry
    \/ BatchVerify
    \/ BatchUserStop

SpecBatch == InitBatch /\ [][NextBatch]_vars

-----------------------------------------------------------------------------
(* Claims about the batch translation drivers (SpecBatch) *)

\* C21: should_stop is evaluated before each record that is sent for
\* translation, and once should_stop has returned true the call sends no
\* further record for translation and writes translated_text or
\* is_translated of no record
C21_StopEndsBatch ==
    /\ batch.evals >= batch.calls
    /\ ~batch.sentAfter
    /\ ~batch.changedAfter

-----------------------------------------------------------------------------
(* Claims about the replacement and its rollback (Spec) *)

\* the replacement was given up: the pipeline is at its restore branch and
\* did not come there from a failed final verification
GaveUp == pc = "restore" /\ CurFile \notin failedVerify

\* C22: _replace_file_safely makes at most max_attempts attempts and gives
\* up only after the last one; when it gave up, the restore leaves the live
\* file with its pre-injection content and the pipeline returns False, and a
\* file whose pipeline returned False is counted as an error for each of its
\* records
C22_GiveUpRestores ==
    [][/\ attempt' <= max_attempts
       /\ (pc = "replace" /\ pc' = "restore") => attempt' = max_attempts
       /\ GaveUp => (live'[CurFile] = preCall /\ ~result')
       /\ (pc = "count" /\ ~result) =>
              counted'[CurFile] = [err |-> Len(CurEntries), succ |-> 0]]_vars

-----------------------------------------------------------------------------
(* The management tool's background workers (unity_text_manager.py)         *)
(*                                                                          *)
(* The handlers of the buttons and the callbacks posted with root.after run *)
(* in the GUI thread, one at a time; each worker is a thread of its own and *)
(* its steps interleave with everything else.  The variable `gui`:          *)
(*   scanning, injecting   the flags of the two start handlers              *)
(*   tabs          the editor and injection tabs are enabled                *)
(*   current_texts "none", or "scanned" / "translated" (an inventory        *)
(*                 without / with a record that has is_translated)          *)
(*   workers       the running worker threads, each [kind, pc, left]:       *)
(*                 kind "scan", "inject" or "translate"; left the           *)
(*                 containers (records) it still has to go through;         *)
(*                 pc "closed" / "open" (a container is held open),         *)
(*                 "filter" (the injector reads the records), "call" /      *)
(*                 "write" (the translation worker waits for the service /  *)
(*                 writes a record)                                         *)
(*   after         the callbacks posted to the GUI thread and not yet run   *)

MaxWorkers == 3
MaxGuiFiles == 1

StartGui ==
    [scanning |-> FALSE, injecting |-> FALSE, tabs |-> FALSE,
     current_texts |-> "none", workers |-> <<>>, after |-> <<>>,
     busy |-> TRUE]

Worker(kind, state, left) == [kind |-> kind, pc |-> state, left |-> left]

\* the sequence s without its k-th element
RemoveAt(s, k) == SubSeq(s, 1, k - 1) \o SubSeq(s, k + 1, Len(s))

guiRest == <<filterVars, nest, asset, mono, walk, scan, stop, batch, lps, restored, injVars>>

\* start_scan (the folder is selected and exists): returns when a scan is
\* running, otherwise sets the flag and starts run_scan in a thread
StartScanClick ==
    /\ gui # GuiIdle /\ Len(gui.workers) < MaxWorkers
    /\ ~gui.scanning
    /\ gui' = [gui EXCEPT !.scanning = TRUE,
                          !.workers = Append(@, Worker("scan", "closed", MaxGuiFiles))]
    /\ UNCHANGED guiRest

\* run_scan: scan_directory loads one container after the other; at the end
\* the worker replaces current_texts and posts scan_completed
RunScan ==
    /\ gui # GuiIdle
    /\ \E k \in DOMAIN gui.workers :
         LET w == gui.workers[k]
         IN  /\ w.kind = "scan"
             /\ gui' = IF w.pc = "open"
                       THEN [gui EXCEPT !.workers[k] = Worker("scan", "closed", w.left - 1)]
                       ELSE IF w.left > 0
                       THEN [gui EXCEPT !.workers[k] = Worker("scan", "open", w.left)]
                       ELSE [gui EXCEPT !.workers = RemoveAt(@, k),
                                        !.current_texts = "scanned",
                                        !.after = Append(@, "scan_completed")]
    /\ UNCHANGED guiRest

\* scan_completed and injection_completed, run by the GUI thread
GuiCallback ==
    /\ gui # GuiIdle /\ gui.after # <<>>
    /\ gui' = IF Head(gui.after) = "scan_completed"
              THEN [gui EXCEPT !.scanning = FALSE, !.tabs = TRUE,
                               !.after = Tail(@)]
              ELSE [gui EXCEPT !.injecting = FALSE, !.after = Tail(@)]
    /\ UNCHANGED guiRest

\* translate_selected_intelligently with a selection, confirmed:
\* translate_selected_texts_worker starts a thread, no flag is read or set
TranslateSelected ==
    /\ gui # GuiIdle /\ Len(gui.workers) < MaxWorkers
    /\ gui.tabs /\ gui.current_texts # "none"
    /\ gui' = [gui EXCEPT !.workers = Append(@, Worker("translate", "call", 1))]
    /\ UNCHANGED guiRest

\* translate_worker: for each selected record, the call of the service and
\* then the assignment of translated_text and is_translated in the record
\* (the record is the inventory's own dict)
TranslateWorker ==
    /\ gui # GuiIdle
    /\ \E k \in DOMAIN gui.workers :
         LET w == gui.workers[k]
         IN  /\ w.kind = "translate"
             /\ gui' = IF w.pc = "write"
                       THEN [gui EXCEPT !.workers[k] = Worker("translate", "call", w.left - 1),
                                        !.current_texts = "translated"]
                       ELSE IF w.left > 0
                       THEN [gui EXCEPT !.workers[k] = Worker("translate", "write", w.left)]
                       ELSE [gui EXCEPT !.workers = RemoveAt(@, k)]
    /\ UNCHANGED guiRest

\* start_injection (an inventory with a translated record, confirmed):
\* returns when an injection is running, otherwise sets the flag and starts
\* run_injection in a thread
StartInjectionClick ==
    /\ gui # GuiIdle /\ Len(gui.workers) < MaxWorkers
    /\ gui.tabs /\ gui.current_texts = "translated"
    /\ ~gui.injecting
    /\ gui' = [gui EXCEPT !.injecting = TRUE,
                          !.workers = Append(@, Worker("inject", "filter", MaxGuiFiles))]
    /\ UNCHANGED guiRest

\* run_injection: inject_translations filters the records, then loads one
\* container after the other, reading the group's records while the
\* container is open; at the end the worker posts injection_completed
RunInjection ==
    /\ gui # GuiIdle
    /\ \E k \in DOMAIN gui.workers :
         LET w == gui.workers[k]
         IN  /\ w.kind = "inject"
             /\ gui' = IF w.pc = "open"
                       THEN [gui EXCEPT !.workers[k] = Worker("inject", "closed", w.left - 1)]
                       ELSE IF w.left > 0
                       THEN [gui EXCEPT !.workers[k] = Worker("inject", "open", w.left)]
                       ELSE [gui EXCEPT !.workers = RemoveAt(@, k),
                                        !.after = Append(@, "injection_completed")]
    /\ UNCHANGED guiRest

InitGui ==
    /\ gui = StartGui
    /\ batch = BatchIdle /\ lps = LpsIdle /\ restored = RestoredIdle
    /\ nest = NestIdle /\ asset = AssetIdle /\ mono = MonoIdle
    /\ walk = WalkIdle /\ scan = ScanIdle /\ stop = StopIdle
    /\ FilterIdle /\ InjIdle

NextGui ==
    \/ StartScanClick
    \/ RunScan
    \/ GuiCallback
    \/ TranslateSelected
    \/ TranslateWorker
    \/ StartInjectionClick
    \/ RunInjection

SpecGui == InitGui /\ [][NextGui]_vars

-----------------------------------------------------------------------------
(* Claims about the tool's workers (SpecGui) *)

WorkersOf(kind) == {k \in DOMAIN gui.workers : gui.workers[k].kind = kind}
HoldingOpen == {k \in DOMAIN gui.workers : gui.workers[k].pc = "open"}
Writing == {k \in DOMAIN gui.workers : gui.workers[k].pc = "write"}

\* C23: at most one worker holds a container open; no scan worker runs
\* beside an injection worker; no two injection workers run; no translation
\* worker writes a record while an injection worker runs
C23_WorkersExclusive ==
    gui # GuiIdle =>
        /\ Cardinality(HoldingOpen) <= 1
        /\ WorkersOf("scan") = {} \/ WorkersOf("inject") = {}
        /\ Cardinality(WorkersOf("inject")) <= 1
        /\ Writing = {} \/ WorkersOf("inject") = {}

-----------------------------------------------------------------------------
(* SpecPath: search_mono_data over a typetree, then _get_nested_value and   *)
(* _set_nested_value on the field_path of each record it emitted            *)
(*                                                                          *)
(* The variable `walk` is the scanner's call; `nest` holds the typetree and *)
(* what the two injector functions returned for the records handled so far: *)
(*   tree   the typetree                                                    *)
(*   got    got[k]: _get_nested_value(tree, field_path of record k)         *)
(*   put    put[k]: [ok, node] of _set_nested_value on a copy of the tree   *)

HitText == <<"h", "i", "t", ".">>
HatText == <<"h", "a", "t", ".">>
NewText == <<"n", "e", "w">>

\* key names: plain, with a dot, with brackets
PathKeys == {<<"a">>, <<"b">>, <<"a", ".", "b">>, <<"b", "[", "0", "]">>}

\* mappings, mappings in mappings, sequences of mappings and of strings,
\* and chains of mappings down to the depth limit and beyond
KeyPairs == {kp \in PathKeys \X PathKeys : kp[1] # kp[2]}

PathStructures ==
    {DictV(kp, <<StrV(HitText), StrV(HatText)>>) : kp \in KeyPairs}
    \cup {DictV(kp, <<DictV(<<k3>>, <<StrV(HitText)>>), StrV(HatText)>>) :
            kp \in KeyPairs, k3 \in PathKeys}
    \cup {DictV(<<k1>>, <<ListV(<<DictV(<<k2>>, <<StrV(HitText)>>),
                                  DictV(<<k2>>, <<StrV(HatText)>>)>>)>>) :
            k1 \in PathKeys, k2 \in PathKeys}
    \cup {DictV(<<k1>>, <<ListV(<<StrV(HitText), StrV(HatText)>>)>>) : k1 \in PathKeys}
    \cup {DictChain(n, HitText) : n \in 1..MaxChain}

StartPath(tree) == [tree |-> tree, got |-> <<>>, put |-> <<>>, done |-> FALSE]

InitPath ==
    /\ \E tree \in PathStructures :
         /\ walk = StartWalk(<<>>, tree, <<"u", "i">>, WalkFile, 2)
         /\ nest = StartPath(tree)
    /\ asset = AssetIdle /\ mono = MonoIdle
    /\ scan = ScanIdle /\ stop = StopIdle
    /\ LaterIdle
    /\ FilterIdle /\ InjIdle

\* the injector's two functions on the next record of the finished scan:
\* current_value = self._get_nested_value(tree, field_path) and
\* self._set_nested_value(tree, field_path, converted_value)
PathRoundTrip ==
    /\ walk # WalkIdle /\ walk.done
    /\ ~nest.done
    /\ LET k == Len(nest.got) + 1
       IN  nest' = IF k > Len(walk.found)
                   THEN [nest EXCEPT !.done = TRUE]
                   ELSE [nest EXCEPT
                           !.got = Append(@, GetNestedValue(nest.tree, walk.found[k].field_path)),
                           !.put = Append(@, SetNestedValue(nest.tree, walk.found[k].field_path,
                                                            StrV(NewText)))]
    /\ UNCHANGED <<filterVars, asset, mono, walk, scan, stop, laterVars, injVars>>

NextPath ==
    \/ WalkStep
    \/ PathRoundTrip

SpecPath == InitPath /\ [][NextPath]_vars

-----------------------------------------------------------------------------
(* Claims about the round trip of a field path (SpecPath) *)

\* a position in a typetree: the keys and indices from the root, each step
\* [key, i] with i < 0 for a key and key = <<>> for an index
KeyStep(key) == [key |-> key, i |-> 0 - 1]
IndexStep(i) == [key |-> <<>>, i |-> i]

\* the relevant leaf strings within the search bounds, as positions: the
\* string values of the mappings at depth 0..RecurseBelow and the string
\* elements among the first ListCap of a sequence
RECURSIVE LeafPositions(_, _)
LeafPositions(node, depth) ==
    IF node.t = "dict"
    THEN UNION {LET kid == node.kids[i]
                    st  == KeyStep(node.keys[i])
                IN  (IF /\ kid.t = "str" /\ Len(kid.s) > MinFieldLen
                        /\ (IsTextRelevant(node.keys[i], kid.s) \/ IsPotentialGameText(kid.s))
                     THEN {<<st>>} ELSE {})
                    \cup (IF kid.t \in {"dict", "list"} /\ depth < RecurseBelow
                          THEN {<<st>> \o p : p \in LeafPositions(kid, depth + 1)}
                          ELSE {}) : i \in DOMAIN node.kids}
    ELSE IF node.t = "list"
    THEN UNION {LET kid == node.kids[i]
                    st  == IndexStep(i - 1)
                IN  (IF /\ kid.t = "str" /\ Len(kid.s) > MinFieldLen
                        /\ (ContainsDialoguePattern(kid.s) \/ IsPotentialGameText(kid.s))
                     THEN {<<st>>} ELSE {})
                    \cup (IF kid.t = "dict" /\ depth < RecurseBelow
                          THEN {<<st>> \o p : p \in LeafPositions(kid, depth + 1)}
                          ELSE {}) : i \in {j \in DOMAIN node.kids : j <= ListCap}}
    ELSE {}

\* the dotted/indexed text of a position: a.b[2].c
RECURSIVE PositionText(_)
PositionText(p) ==
    IF p = <<>> THEN <<>>
    ELSE LET front == PositionText(SubSeq(p, 1, Len(p) - 1))
             st    == p[Len(p)]
         IN  IF st.i < 0
             THEN (IF front = <<>> THEN st.key ELSE front \o <<".">> \o st.key)
             ELSE front \o <<"[">> \o DecStr(st.i) \o <<"]">>

KidPos(node, st) == IF st.i < 0 THEN KeyIndex(node, st.key) ELSE st.i + 1

RECURSIVE ValueAt(_, _)
ValueAt(node, p) ==
    IF p = <<>> THEN node ELSE ValueAt(node.kids[KidPos(node, p[1])], Tail(p))

\* the typetree with the value at position p replaced
RECURSIVE ReplacedAt(_, _, _)
ReplacedAt(node, p, value) ==
    IF p = <<>> THEN value
    ELSE LET k == KidPos(node, p[1])
         IN  [node EXCEPT !.kids[k] = ReplacedAt(node.kids[k], Tail(p), value)]

\* C24: every relevant leaf string within the search bounds has exactly one
\* record, with the leaf's dotted/indexed path as field_path and the leaf as
\* original_text; for every record, _get_nested_value on its field_path
\* returns its original_text, and _set_nested_value on it succeeds and
\* changes the leaf the record came from and nothing else
C24_PathRoundTrip ==
    (walk # WalkIdle /\ nest.done) =>
        LET S      == nest.tree
            recs   == walk.found
            leaves == LeafPositions(S, 0)
        IN  /\ \A p \in leaves :
                  Cardinality({k \in DOMAIN recs :
                                  /\ recs[k].field_path = PositionText(p)
                                  /\ recs[k].original_text = ValueAt(S, p).s}) = 1
            /\ \A k \in DOMAIN recs :
                  /\ nest.got[k] = StrV(recs[k].original_text)
                  /\ nest.put[k].ok
                  /\ \E p \in leaves :
                        /\ PositionText(p) = recs[k].field_path
                        /\ ValueAt(S, p).s = recs[k].original_text
                        /\ nest.put[k].node = ReplacedAt(S, p, StrV(NewText))

-----------------------------------------------------------------------------
(* SpecLps: find_length_prefixed_strings on a byte buffer                   *)
(*                                                                          *)
(* A buffer is a sequence of bytes (numbers 0..255).  The variable `lps`:   *)
(*   data     the buffer                                                    *)
(*   i        the offset of the while loop                                  *)
(*   strings  the list the accepted texts are appended to                   *)
(*   result   what the call returns (list(set(strings)), as a set)          *)
(*   spans    history: [i, size, length] of every accepted record           *)
(*   iters    history: the iterations made                                  *)

\* while i < len(data) - 8
TailGuard == 8
\* 5 < length < 500
MinPrefixed == 5
MaxPrefixed == 500

\* [('<I', 4), ('<H', 2), ('<Q', 8)]
PrefixSizes == <<4, 2, 8>>

\* data[a:b] of Python: cut off at the end of the buffer
Slice(data, a, b) ==
    SubSeq(data, a + 1, IF b > Len(data) THEN Len(data) ELSE b)

\* struct.unpack of a little-endian unsigned number.  A number with a byte
\* beyond the second is 65536 or more; every such number fails
\* 'length < 500' alike and stands here as 65536
Unpack(bytes) ==
    IF \E k \in DOMAIN bytes : k > 2 /\ bytes[k] # 0 THEN 65536
    ELSE bytes[1] + 256 * bytes[2]

\* the character of a byte below 128: NUL, space, '.', 'a'; the other bytes
\* of the model's buffers (6, 16) are control characters
ByteChar(b) ==
    CASE b = 0 -> NUL [] b = 32 -> SP [] b = 46 -> "." [] b = 97 -> "a"
      [] OTHER -> CTL

\* bytes.decode('utf-8', errors='strict'): raises on the byte 255
Utf8Ok(bytes) == \A k \in DOMAIN bytes : bytes[k] < 128
Utf8Text(bytes) == [k \in DOMAIN bytes |-> ByteChar(bytes[k])]

\* bytes.decode('utf-16le', errors='strict') of an even number of bytes.  A
\* unit with a high byte (or the low byte 255) is a character outside the
\* characters of the model
Foreign16(bytes) ==
    \E k \in 1..(Len(bytes) \div 2) : bytes[2 * k] # 0 \/ bytes[2 * k - 1] >= 128
Utf16Text(bytes) == [k \in 1..(Len(bytes) \div 2) |-> ByteChar(bytes[2 * k - 1])]

\* (variant: the length is not compared with the end of the buffer)
Reasonable_Unbounded(length, i, size, n) ==
    MinPrefixed < length /\ length < MaxPrefixed

\* 5 < length < 500 and i + size + length <= len(data)
Reasonable(length, i, size, n) ==
    MinPrefixed < length /\ length < MaxPrefixed /\ i + size + length <= n

\* the body of the for loop for one format: whether the record at i is
\* accepted and with which text.  `foreign` is the verdict of
\* is_potential_game_text on a UTF-16 text with characters outside the model
TryFormat(data, i, size, foreign) ==
    LET length      == Unpack(Slice(data, i, i + size))
        string_data == Slice(data, i + size, i + size + length)
        fits        == /\ i + size <= Len(data)
                       /\ Reasonable(length, i, size, Len(data))
        utf8        == /\ fits /\ Utf8Ok(string_data)
                       /\ IsPotentialGameText(Utf8Text(string_data))
        utf16       == /\ fits /\ length % 2 = 0
                       /\ IF Foreign16(string_data) THEN foreign
                          ELSE IsPotentialGameText(Utf16Text(string_data))
    IN  [accept |-> utf8 \/ utf16, size |-> size, length |-> length,
         text |-> IF utf8 THEN Strip(Utf8Text(string_data))
                  ELSE Strip(Utf16Text(string_data))]

StartLps(data) ==
    [data |-> data, i |-> 0, strings |-> <<>>, result |-> {}, spans |-> <<>>,
     iters |-> 0, done |-> FALSE]

\* one iteration of the while loop (or its end and the return): the first
\* format that is accepted appends its text and moves i past the record;
\* when none is, the else of the for loop moves i by one
LpsStepOf(l, foreign) ==
    LET t1  == TryFormat(l.data, l.i, PrefixSizes[1], foreign)
        t2  == TryFormat(l.data, l.i, PrefixSizes[2], foreign)
        t3  == TryFormat(l.data, l.i, PrefixSizes[3], foreign)
        hit == IF t1.accept THEN t1 ELSE IF t2.accept THEN t2 ELSE t3
    IN  IF ~(l.i < Len(l.data) - TailGuard)
        THEN [l EXCEPT !.done = TRUE,
                       !.result = {l.strings[k] : k \in DOMAIN l.strings}]
        ELSE IF hit.accept
        THEN [l EXCEPT !.strings = Append(@, hit.text),
                       !.i = @ + hit.size + hit.length,
                       !.spans = Append(@, [i |-> l.i, size |-> hit.size,
                                            length |-> hit.length]),
                       !.iters = @ + 1]
        ELSE [l EXCEPT !.i = @ + 1, !.iters = @ + 1]

LpsStep ==
    /\ lps # LpsIdle /\ ~lps.done
    /\ \E foreign \in BOOLEAN : lps' = LpsStepOf(lps, foreign)
    /\ UNCHANGED <<filterVars, nest, asset, mono, walk, scan, stop, batch, gui, restored, injVars>>

\* the buffers: up to MaxPad bytes 0, then up to two pieces of: a record with
\* a 2-, 4- or 8-byte prefix and a UTF-8 text, a record with a UTF-16 text,
\* a prefix whose length reaches beyond the buffer, a byte that is no UTF-8
Text6 == <<97, 97, 97, 97, 97, 46>>
Text16 == <<97, 0, 97, 0, 97, 0, 32, 0, 32, 0, 32, 0, 32, 0, 46, 0>>

Pieces ==
    {<<6, 0>> \o Text6, <<6, 0, 0, 0>> \o Text6,
     <<6, 0, 0, 0, 0, 0, 0, 0>> \o Text6, <<16, 0>> \o Text16,
     <<16, 0>> \o Text6 \o <<97>>, <<255>>}

MaxPad == 2

RECURSIVE Flatten(_)
Flatten(ss) == IF ss = <<>> THEN <<>> ELSE Head(ss) \o Flatten(Tail(ss))

Buffers ==
    {[k \in 1..n |-> 0] \o Flatten(ps) : n \in 0..MaxPad, ps \in SeqsUpTo(Pieces, 2)}

InitLps ==
    /\ \E data \in Buffers : lps = StartLps(data)
    /\ batch = BatchIdle /\ gui = GuiIdle /\ restored = RestoredIdle
    /\ nest = NestIdle /\ asset = AssetIdle /\ mono = MonoIdle
    /\ walk = WalkIdle /\ scan = ScanIdle /\ stop = StopIdle
    /\ FilterIdle /\ InjIdle

NextLps == LpsStep

SpecLps == InitLps /\ [][NextLps]_vars

\* a call that is running goes on running: Python executes the next
\* iteration of the loop
SpecLpsLive == SpecLps /\ WF_vars(LpsStep)

-----------------------------------------------------------------------------
(* Claims about the length-prefixed scan (SpecLpsLive) *)

SpanEnd(sp) == sp.i + sp.size + sp.length

\* C25: the call returns on every buffer, every iteration moves the offset
\* forward by at least one, the accepted spans do not overlap, and every
\* accepted span ends inside the buffer
C25_GreedyScan ==
    /\ <>(lps.done)
    /\ [][lps'.done \/ lps'.i >= lps.i + 1]_vars
    /\ [](\A a, b \in DOMAIN lps.spans :
              a < b => SpanEnd(lps.spans[a]) <= lps.spans[b].i)
    /\ [](\A a \in DOMAIN lps.spans : SpanEnd(lps.spans[a]) <= Len(lps.data))

\* a finished call that accepted a 2-byte-prefixed and a 4-byte-prefixed
\* record and also moved on by single bytes
C25_Witness ==
    /\ lps.done
    /\ \E a, b \in DOMAIN lps.spans : lps.spans[a].size = 2 /\ lps.spans[b].size = 4
    /\ lps.iters > Len(lps.spans)

-----------------------------------------------------------------------------
(* SpecFields: inject_translations on inventories that hold a record for    *)
(* each of two string fields of one MonoBehaviour, as search_mono_data      *)
(* writes them (same source_file and path_id, field_path 'a' and 'b')       *)

FieldFiles ==
    [InitialFiles EXCEPT ![FileA] =
        UnityFile(<<MkObject(1, "TextAsset", "dlg", Absent, BytesV(<<"61">>),
                             Absent, NoneV, TRUE, TRUE),
                    MkObject(2, "MonoBehaviour", "ui", Absent, Absent, Absent,
                             DictV(<<KA, KB>>, <<StrV(<<"a">>), StrV(<<"a">>)>>),
                             TRUE, TRUE)>>)]

FieldRecords ==
    { MkRecord("ui.a", TRUE, <<"a">>, GoodText, FileA, TRUE, 2, "MonoBehaviour", KA),
      MkRecord("ui.b", TRUE, <<"a">>, GoodText, FileA, TRUE, 2, "MonoBehaviour", KB),
      MkRecord("dlg",  TRUE, <<"a">>, GoodText, FileA, TRUE, 1, "TextAsset", <<>>),
      MkRecord("menu", TRUE, <<"a">>, GoodText, FileB, TRUE, 1, "TextAsset", <<>>) }

InitFields ==
    /\ texts \in SeqsUpTo(FieldRecords, MaxRecords)
    /\ texts0 = texts
    /\ valid = <<>> /\ report = <<>>
    /\ prevValid = [idx |-> <<>>, recs |-> <<>>]
    /\ runs = 0
    /\ nest = NestIdle /\ asset = AssetIdle
    /\ OthersIdle
    /\ live = FieldFiles /\ live0 = FieldFiles
    /\ backup = NoFiles /\ temp = NoFile /\ safety = NoFile
    /\ success_count = 0 /\ error_count = 0 /\ processed_files = {}
    /\ pc = "start" /\ files_to_process = <<>> /\ file_index = 0
    /\ env = <<>> /\ attempt = 0 /\ result = FALSE
    /\ preCall = NoFile /\ verifiedTemp = NoFile
    /\ written = {} /\ aborted = {} /\ failedVerify = {}
    /\ counted = [f \in GameFiles |-> NoCount]

SpecFields == InitFields /\ [][Next]_vars

-----------------------------------------------------------------------------
(* Claims about several records of one object (SpecFields) *)

\* the records of the group that aim at the object and carry a field path
FieldEntriesFor(obj) ==
    {k \in DOMAIN CurEntries :
        /\ PathIdPresent(CurEntries[k])
        /\ CurEntries[k].path_id = obj.path_id
        /\ CurEntries[k].field_path # <<>>}

\* C26: after the object loop of a file, an object aimed at by several
\* records with different field paths carries, at each of these paths, what
\* that record alone writes there
C26_EveryFieldWritten ==
    MutateDone =>
        \A i \in DOMAIN env :
            LET obj   == temp.objs[i]
                aimed == FieldEntriesFor(obj)
            IN  (\A j, k \in aimed :
                     j # k => CurEntries[j].field_path # CurEntries[k].field_path)
                => \A k \in aimed :
                      AppliesTo(CurEntries[k], obj) =>
                          GetNestedValue(env[i].tree, CurEntries[k].field_path) =
                            GetNestedValue(ModifyObject(obj, <<CurEntries[k]>>).obj.tree,
                                           CurEntries[k].field_path)

-----------------------------------------------------------------------------
(* Claims about the counters of a run (Spec) *)

\* the record's text is in its target in the file as the run left it: the
\* object of its path_id as the record alone rewrites it, or the text file
\* holding its text
WrittenIn(e, f) ==
    IF IsContainerName(f)
    THEN /\ live[f].kind = "unity"
         /\ PathIdPresent(e)
         /\ \E i \in DOMAIN live0[f].objs :
               /\ i \in DOMAIN live[f].objs
               /\ live0[f].objs[i].path_id = e.path_id
               /\ AppliesTo(e, live0[f].objs[i])
               /\ live[f].objs[i] = ModifyObject(live0[f].objs[i], <<e>>).obj
    ELSE live[f].kind = "text" /\ live[f].text = e.translated_text

\* C27: at the end of a run success_count + error_count is the number of
\* surviving records, and the records of a file counted as successes are
\* written in their targets in that file
C27_CountsMatchWrites ==
    pc = "done" =>
        /\ success_count + error_count = Len(valid)
        /\ \A f \in GameFiles :
              counted[f].succ > 0 => \A e \in ValidEntriesOf(f) : WrittenIn(e, f)


\* C28: when the rollback pipeline returns, neither the working copy
\* ('.unity_temp') nor the safety copy ('.backup_temp') is left, and the
\* safety copy is removed only when the live file no longer holds content
\* that failed the final verification
C28_CleanExit ==
    [][ /\ (pc = "finally" /\ pc' = "count")
            => (temp' = NoFile /\ safety' = NoFile)
        /\ (InFile /\ pc # "count" /\ safety # NoFile /\ safety' = NoFile
              /\ CurFile \in failedVerify')
            => live'[CurFile] = preCall ]_vars

-----------------------------------------------------------------------------
(* SpecRuns: one injector (one backup_dir) on which inject_translations is  *)
(* called up to MaxRuns times with the same inventory, and then             *)
(* restore_backup() without a timestamp.                                    *)

MaxRuns == 2

\* the files restore_backup finds under backup_path
BackupSet == {f \in GameFiles : backup[f].kind # "none"}

\* restore_backup(): for every file of the backup directory, skip it when the
\* target has the same hash, else copy it over the target and compare; a copy
\* that raises or a comparison that fails counts as a failure; the result is
\* failed_count == 0
RestoreBackup ==
    /\ pc = "done"
    /\ ~restored.called
    /\ \E outcome \in [BackupSet -> CopyOutcomes] :
         LET same(f) == live[f].kind # "none" /\ live[f] = backup[f]
             after(f) == IF f \notin BackupSet \/ same(f) THEN live[f]
                         ELSE CopyResult(backup[f], live[f], outcome[f])
             failed == {f \in BackupSet :
                          /\ ~same(f)
                          /\ \/ outcome[f] # "ok"
                             \/ ~VerifyBackupIntegrity(backup[f], after(f))}
         IN  /\ live' = [f \in GameFiles |-> after(f)]
             /\ restored' = [called |-> TRUE, result |-> failed = {}]
    /\ UNCHANGED <<filterVars, nest, asset, mono, walk, scan, stop, batch,
                   gui, lps, backup, temp, safety, success_count,
                   error_count, processed_files, pc, files_to_process,
                   file_index, env, attempt, result, live0, preCall,
                   verifiedTemp, written, aborted, failedVerify, counted>>

\* the caller hands the inventory to inject_translations once more
InjectAgain ==
    /\ pc = "done"
    /\ ~restored.called
    /\ runs < MaxRuns
    /\ pc' = "start"
    /\ UNCHANGED <<filterVars, callVars, live, backup, temp, safety,
                   success_count, error_count, processed_files,
                   files_to_process, file_index, env, attempt, result, live0,
                   preCall, verifiedTemp, written, aborted, failedVerify,
                   counted>>

InitRuns ==
    /\ texts \in {<<r>> : r \in InjectRecords}
    /\ texts0 = texts
    /\ valid = <<>> /\ report = <<>>
    /\ prevValid = [idx |-> <<>>, recs |-> <<>>]
    /\ runs = 0
    /\ nest = NestIdle /\ asset = AssetIdle
    /\ OthersIdle
    /\ live = InitialFiles /\ live0 = InitialFiles
    /\ backup = NoFiles /\ temp = NoFile /\ safety = NoFile
    /\ success_count = 0 /\ error_count = 0 /\ processed_files = {}
    /\ pc = "start" /\ files_to_process = <<>> /\ file_index = 0
    /\ env = <<>> /\ attempt = 0 /\ result = FALSE
    /\ preCall = NoFile /\ verifiedTemp = NoFile
    /\ written = {} /\ aborted = {} /\ failedVerify = {}
    /\ counted = [f \in GameFiles |-> NoCount]

NextRuns ==
    \/ Next
    \/ InjectAgain
    \/ RestoreBackup

SpecRuns == InitRuns /\ [][NextRuns]_vars

\* C29: after one call of inject_translations and a restore_backup() that
\* returned true, every file of the backup set has the content it had before
\* the run
C29_RestoreGivesBack ==
    (restored.called /\ restored.result /\ runs = 1)
        => \A f \in BackupSet : live[f] = live0[f]

\* C30: a backup copy that holds the content its file had before the first
\* call keeps it through every later call
C30_BackupKeepsFirst ==
    [][\A f \in GameFiles :
          (backup[f].kind # "none" /\ backup[f] = live0[f])
              => backup'[f] = live0[f]]_vars

====
